---- MODULE Spec2Model ----
(***************************************************************************)
(* Insta Outreach Logger: the messaging gate of the browser extension      *)
(* (content.js <-> background.js <-> native host) and the local store and  *)
(* sync engine of the desktop host.                                        *)
(*                                                                         *)
(* Content scripts (one per tab) talk to the background script over        *)
(* chrome.runtime ports; the background script multiplexes them onto one   *)
(* native-messaging port.  Port events travel asynchronously: toBg[t] is   *)
(* the ordered stream of events the renderer of tab t sends to the         *)
(* background script, toContent[t] the stream in the other direction, and  *)
(* fromHost the stream from the native host to the background script.      *)
(***************************************************************************)
EXTENDS Integers, Sequences, FiniteSets, TLC

\* ------------------------------------------------------------------ bounds
NumTabs == 2          \* content-script sessions (tabs)
MaxPorts == 4         \* chrome.runtime ports ever opened
MaxMsgId == 1         \* requests with a callback per content script
MaxDrops == 2         \* port disconnections caused by the browser
MaxHostFlips == 1     \* times the host application stops or starts
MaxNotify == 1        \* unsolicited messages the host emits
MaxTicks == 1         \* keep-alive ticks
MaxEnv == 3           \* browser, host and timer events in one run, in all
MaxRecords == 3       \* activity records captured in a sync run
BatchLimit == 2       \* rows of one Push batch (the N of list_unsynced)
NumTargets == 2       \* reference rows (targets)
MaxServerTime == 2    \* last-modified values the central store hands out
MaxClock == 2         \* readings of the host's wall clock
MaxFaults == 2        \* network failures, rejected batches and restarts
NumAccounts == 2      \* acting accounts
MaxRules == 2         \* rows of the rules table
MaxLimit == 2         \* largest threshold of a rule
MaxWindow == 2        \* longest time window of a rule
MaxNow == 2           \* readings of the clock the evaluator is given
MaxEvents == 3        \* rows of the event log the evaluator reads
MaxAttempts == 3      \* evaluated Outreach attempts
MaxDetails == 2       \* outreach records captured with a detail row
MaxText == 1          \* message texts
MaxRequests == 2      \* status checks one content-script session posts
MaxActs == 2          \* things the user and the page do in one session
MaxPolls == 2         \* ticks of the username poll of a DM thread (20 in the source)
MaxLost == 1          \* requests the gate leaves unanswered
MaxBgEvents == 3      \* install/update events and discovery messages
MaxDiscoveryTabs == 3 \* discovery tabs ever created
MaxScroll == 2        \* largest scrollTop of the DM list

Tabs == 1..NumTabs
Ports == 1..MaxPorts
ReqIds == 1..MaxMsgId
Targets == 1..NumTargets
Accounts == 1..NumAccounts

\* Backoff of the sync loop, in units of the base interval.
BaseDelay == 1
MaxDelay == 3

\* messageText.trim().substring(0, 200) of logOutreach
SnippetLimit == 200

\* requests content.js sends with a callback
CallbackTypes == {"LOG_OUTREACH", "CHECK_PROSPECT_STATUS"}

VARIABLES
    \* content.js, one instance per tab
    port,              \* [Tabs -> 0..MaxPorts]   `port` (0 = null)
    pendingCallbacks,  \* [Tabs -> SUBSET ReqIds]
    messageIdCounter,  \* [Tabs -> Nat]
    reconnectTimers,   \* [Tabs -> Nat]  pending setTimeout(connectPort, 1000)
    \* chrome.runtime ports
    nextPort,          \* next port object to be created
    portTab,           \* [Ports -> Tabs \cup {0}]  tab whose script opened it
    portOpen,          \* [Ports -> BOOLEAN]
    toBg,              \* [Tabs -> Seq(event)]
    toContent,         \* [Tabs -> Seq(event)]
    \* background.js
    contentPorts,      \* [Tabs -> 0..MaxPorts]   Map tabId -> port
    pendingRequests,   \* [ReqIds -> Tabs \cup {0}]  Map requestId -> tabId
    nativePort,        \* BOOLEAN, FALSE = null
    \* native host and its pipe
    hostUp,            \* the desktop application is running
    nativeLive,        \* the object in nativePort is connected to it
    hostInbox,         \* requests the host has received and not yet applied
    fromHost,          \* events on their way to the background script
    \* local durable store of the host
    activity,          \* Seq of activity records, in order of append
    watermark,         \* sync watermark of the reference category
    refCache,          \* [Targets -> last-modified value of the cached row]
    \* sync engine and central store
    central,           \* Seq of canonical activity rows
    centralRef,        \* [Targets -> last-modified value of the central row]
    pushResp,          \* response of a batch insert on its way back
    conflicts,         \* local ids reported as IdentityConflict
    localClock,        \* wall clock of the host (NOW())
    txn,               \* the open transaction of upsert_reference_batch
    phase,             \* what the sync loop does next: "pull" or "push"
    delay,             \* backoff: delay before the next attempt
    syncStatus,        \* status shown to the user: starting, ok, error
    faults,            \* failures and restarts so far
    pushed,            \* [local id -> batch inserts that accepted it, up to 2]
    \* safety evaluator
    rules,             \* the cached rules table
    eventLog,          \* Seq of the event-log rows the evaluator reads
    evalNow,           \* the time the evaluator is given
    verdicts,          \* Seq of the verdicts returned, with the account
    \* history
    \* outreach details of the local store
    excluded,          \* targets flagged Excluded
    outreachDetail,    \* set of detail rows, one per Outreach record
    \* content.js, user interface of one session
    location,          \* window.location: the page on display
    visible,           \* document.visibilityState = 'visible'
    lastCheckedUrl,
    lastCheckedUsername,    \* 0 = ''
    isCheckInProgress,
    statusRefreshInterval,  \* 0 = null, else the username the interval refreshes
    refreshTimers,     \* interval timers of startStatusRefresh set and not cleared
    dmDiscoveryInterval,    \* the running username poll of a DM thread
    activeChatInput,   \* the keydown listener is attached to the chat input
    banner,            \* the status banner last put into the page
    tasks,             \* armed timers and handlers suspended at an await
    viewer,            \* the account logged in, as the page shows it
    storedActor,       \* chrome.storage.local actorUsername, 0 = not set
    currentActorUsername,   \* 0 = null
    uiCallbacks,       \* pendingCallbacks of the session, with their closures
    uiIdCounter,       \* messageIdCounter of the session
    inFlight,          \* requests of the session the gate will still answer
    sent,              \* Seq of the messages the session has posted
    acts,              \* user and page events so far
    lost,              \* requests the gate has left unanswered
    landing,           \* history: the page the content script was loaded on
    \* background.js, actor discovery
    discoveryTabId,    \* 0 = null
    discoveryTabs,     \* the discovery tabs that are open
    bgCallbacks,       \* callbacks of chrome.storage and chrome.tabs calls not yet run
    tabsCreated,       \* discovery tabs created so far
    bgEvents,          \* install/update events and discovery messages so far
    \* dm_scroller.js
    toggleBtn,         \* "null", or the display of the button: "none", "flex"
    panel,             \* "null", or the display of the panel: "none", "block"
    isScrolling,
    scrollInterval,    \* 0 = null, 1 = the handle of the last timeout set
    scrollTimers,      \* timeouts of performScrollStep that are pending
    scrollTop,         \* position of the DM list
    direction,         \* settings.direction
    \* history
    cbGot,             \* [Tabs -> set of callback invocations]
    posted,            \* requests accepted by a port, as <<tab, requestId, type>>
    drops, flips, notified, ticks

contentVars == <<port, pendingCallbacks, messageIdCounter, reconnectTimers>>
chromeVars == <<nextPort, portTab, portOpen, toBg, toContent>>
bgVars == <<contentPorts, pendingRequests, nativePort>>
hostVars == <<hostUp, nativeLive, hostInbox, fromHost>>
histVars == <<cbGot, posted, drops, flips, notified, ticks>>
gateVars == <<contentVars, chromeVars, bgVars, hostVars, histVars>>
storeVars == <<watermark, refCache, txn>>
centralVars == <<central, centralRef>>
loopVars == <<phase, delay, syncStatus>>
syncVars == <<storeVars, centralVars, pushResp, conflicts, localClock, loopVars,
              faults, pushed>>
evalVars == <<rules, eventLog, evalNow, verdicts>>
detailVars == <<excluded, outreachDetail>>
pageVars == <<location, visible, lastCheckedUrl, lastCheckedUsername, isCheckInProgress,
              statusRefreshInterval, refreshTimers, dmDiscoveryInterval, activeChatInput, banner, tasks>>
actorVars == <<viewer, storedActor, currentActorUsername>>
requestVars == <<uiCallbacks, uiIdCounter, inFlight, sent>>
uiVars == <<pageVars, actorVars, requestVars, acts, lost, landing>>
discoveryVars == <<discoveryTabId, discoveryTabs, bgCallbacks, tabsCreated, bgEvents>>
scrollerVars == <<toggleBtn, panel, isScrolling, scrollInterval, scrollTimers, scrollTop,
                  direction>>
frontVars == <<detailVars, uiVars, discoveryVars, scrollerVars>>
vars == <<gateVars, activity, syncVars, evalVars, frontVars>>

\* ---------------------------------------------------------------- messages
\* `origin` is history: the tab whose content script created the request a
\* message belongs to.  No handler reads it.
Msg(type, requestId, origin, err) ==
    [type |-> type, requestId |-> requestId, origin |-> origin, err |-> err]

NoMsg == Msg("none", 0, 0, "none")

Ev(kind, p, m) == [kind |-> kind, port |-> p, msg |-> m]

HostEv(kind, m) == [kind |-> kind, msg |-> m]

OfflineResponse(m) == Msg("response", m.requestId, m.origin, "APPLICATION_OFFLINE")

HostResponse(m) == Msg("response", m.requestId, m.origin, "none")

Notification == Msg("notify", 0, 0, "none")

\* No batch insert is in flight.
NoResp == [pending |-> FALSE, batch |-> {}, map |-> {}]

\* No transaction is open on the reference tables.
NoTxn == [open |-> FALSE, rows |-> {}, staged |-> {}]

KeepAlive == Msg("keep_alive", 0, 0, "none")

\* --------------------------------------------------------------- functions
\* Port.postMessage from the background script to port p.
PostToContent(q, p, m) ==
    IF p # 0 /\ portOpen[p]
    THEN [q EXCEPT ![portTab[p]] = Append(@, Ev("message", p, m))]
    ELSE q

\* -------------------------------------------------------------------- Init
\* Each content script has run initialize(), which calls connectPort(); the
\* background script has run its top-level connectNative().  With the host
\* application down, chrome.runtime.connectNative either throws (nativePort
\* stays null) or hands out a port that is disconnected afterwards.
InitBase ==
    /\ port = [t \in Tabs |-> t]
    /\ pendingCallbacks = [t \in Tabs |-> {}]
    /\ messageIdCounter = [t \in Tabs |-> 0]
    /\ reconnectTimers = [t \in Tabs |-> 0]
    /\ nextPort = NumTabs + 1
    /\ portTab = [p \in Ports |-> IF p \in Tabs THEN p ELSE 0]
    /\ portOpen = [p \in Ports |-> p \in Tabs]
    /\ toBg = [t \in Tabs |-> <<Ev("connect", t, NoMsg)>>]
    /\ toContent = [t \in Tabs |-> <<>>]
    /\ contentPorts = [t \in Tabs |-> 0]
    /\ pendingRequests = [r \in ReqIds |-> 0]
    /\ hostUp \in BOOLEAN
    /\ nativePort \in (IF hostUp THEN {TRUE} ELSE BOOLEAN)
    /\ nativeLive = hostUp
    /\ hostInbox = <<>>
    /\ fromHost = IF nativePort /\ ~hostUp THEN <<HostEv("disconnect", NoMsg)>> ELSE <<>>
    /\ activity = <<>>
    /\ watermark = 0
    /\ refCache = [x \in Targets |-> 0]
    /\ central = <<>>
    /\ centralRef = [x \in Targets |-> 0]
    /\ pushResp = NoResp
    /\ conflicts = {}
    /\ localClock = 1
    /\ txn = NoTxn
    /\ phase = "pull"
    /\ delay = BaseDelay
    /\ syncStatus = "starting"
    /\ faults = 0
    /\ pushed = [c \in 1..MaxRecords |-> 0]
    /\ eventLog = <<>>
    /\ evalNow = 0
    /\ verdicts = <<>>
    /\ cbGot = [t \in Tabs |-> {}]
    /\ posted = {}
    /\ drops = 0
    /\ flips = 0
    /\ notified = 0
    /\ ticks = 0

\* No outreach has been captured and no target is flagged.
DetailInit == excluded = {} /\ outreachDetail = {}

\* The background script has started: no discovery tab, no call pending.
DiscoveryInit ==
    /\ discoveryTabId = 0
    /\ discoveryTabs = {}
    /\ bgCallbacks = {}
    /\ tabsCreated = 0
    /\ bgEvents = 0

\* window.location.href.includes('/direct/'): of the pages of the model, the
\* DM threads.
IsDirect(pg) == pg.kind = "thread"

\* The scroller after its script has run: nothing is created but, by the
\* first checkUrl() on a /direct/ page, the toggle button.
ScrollerIdle ==
    /\ toggleBtn = IF IsDirect(location) THEN "flex" ELSE "null"
    /\ panel = "null"
    /\ isScrolling = FALSE
    /\ scrollInterval = 0
    /\ scrollTimers = 0
    /\ scrollTop = 0
    /\ direction = "down"

\* A content script after initialize(): nothing checked yet, the 300 ms
\* initial check armed.  P, V and A are the pages it may have been loaded
\* on, the accounts that may be logged in and the usernames that may be in
\* chrome.storage.local.
SessionInit(P, V, A) ==
    /\ location \in P
    /\ visible = TRUE
    /\ lastCheckedUrl = [kind |-> "none", user |-> 0]
    /\ lastCheckedUsername = 0
    /\ isCheckInProgress = FALSE
    /\ statusRefreshInterval = 0
    /\ refreshTimers = 0
    /\ dmDiscoveryInterval = [url |-> [kind |-> "none", user |-> 0], attempts |-> 0]
    /\ activeChatInput = FALSE
    /\ banner = [state |-> "none", about |-> 0, stage |-> ""]
    /\ tasks = {[kind |-> "initialCheck", user |-> 0, state |-> "", n |-> 0]}
    /\ viewer \in V
    /\ storedActor \in A
    /\ currentActorUsername = 0
    /\ uiCallbacks = {}
    /\ uiIdCounter = 0
    /\ inFlight = {}
    /\ sent = <<>>
    /\ acts = 0
    /\ lost = 0
    /\ landing = location

\* The session of the model outside the user-interface specification: on a
\* page without target.
FrontIdle ==
    /\ DetailInit /\ DiscoveryInit
    /\ SessionInit({[kind |-> "other", user |-> 0]}, {1}, {0})
    /\ ScrollerIdle

\* No rule has been pulled yet.
Init == InitBase /\ rules = {} /\ FrontIdle

\* ------------------------------------------------------------- content.js
\* connectPort(): chrome.runtime.connect creates a new port object, stores it
\* in `port` and the background script's onConnect fires later.
connectPort(t) ==
    /\ nextPort <= MaxPorts
    /\ port' = [port EXCEPT ![t] = nextPort]
    /\ portTab' = [portTab EXCEPT ![nextPort] = t]
    /\ portOpen' = [portOpen EXCEPT ![nextPort] = TRUE]
    /\ nextPort' = nextPort + 1

\* The 1-second timer armed by the content script's port.onDisconnect.
ReconnectTimer(t) ==
    /\ reconnectTimers[t] > 0
    /\ reconnectTimers' = [reconnectTimers EXCEPT ![t] = @ - 1]
    /\ connectPort(t)
    /\ toBg' = [toBg EXCEPT ![t] = Append(@, Ev("connect", nextPort, NoMsg))]
    /\ UNCHANGED <<pendingCallbacks, messageIdCounter, toContent>>
    /\ UNCHANGED <<bgVars, hostVars, activity, histVars>>
    /\ UNCHANGED <<syncVars, evalVars, frontVars>>

\* The content script's port.onDisconnect listener, for any of its ports.
ContentOnDisconnect(t) ==
    /\ toContent[t] # <<>>
    /\ Head(toContent[t]).kind = "disconnect"
    /\ toContent' = [toContent EXCEPT ![t] = Tail(@)]
    /\ port' = [port EXCEPT ![t] = 0]
    /\ reconnectTimers' = [reconnectTimers EXCEPT ![t] = @ + 1]
    /\ UNCHANGED <<pendingCallbacks, messageIdCounter, nextPort, portTab, portOpen, toBg>>
    /\ UNCHANGED <<bgVars, hostVars, activity, histVars>>
    /\ UNCHANGED <<syncVars, evalVars, frontVars>>

\* The content script's port.onMessage listener.
ContentOnMessage(t) ==
    /\ toContent[t] # <<>>
    /\ Head(toContent[t]).kind = "message"
    /\ toContent' = [toContent EXCEPT ![t] = Tail(@)]
    /\ LET m == Head(toContent[t]).msg IN
       IF m.requestId # 0 /\ m.requestId \in pendingCallbacks[t]
       THEN /\ pendingCallbacks' = [pendingCallbacks EXCEPT ![t] = @ \ {m.requestId}]
            /\ cbGot' = [cbGot EXCEPT ![t] = @ \cup {m}]
       ELSE UNCHANGED <<pendingCallbacks, cbGot>>
    /\ UNCHANGED <<port, messageIdCounter, reconnectTimers, nextPort, portTab, portOpen, toBg>>
    /\ UNCHANGED <<bgVars, hostVars, activity, posted, drops, flips, notified, ticks>>
    /\ UNCHANGED <<syncVars, evalVars, frontVars>>

\* sendMessageToBackground(data, callback) with a callback: reconnects on
\* demand, numbers the request with ++messageIdCounter, registers the
\* callback and posts.  A post on a port the browser has already closed
\* (its onDisconnect has not run yet) is lost, or throws and the callback
\* is called with the send error.
SendRequest(t, type, throws) ==
    /\ messageIdCounter[t] < MaxMsgId
    /\ LET id == messageIdCounter[t] + 1
           m == Msg(type, id, t, "none")
           fresh == port[t] = 0
           p == IF fresh THEN nextPort ELSE port[t]
           open == fresh \/ portOpen[p]
           q == IF fresh THEN [toBg EXCEPT ![t] = Append(@, Ev("connect", p, NoMsg))]
                ELSE toBg
       IN
       /\ IF fresh THEN connectPort(t) ELSE UNCHANGED <<port, nextPort, portTab, portOpen>>
       /\ throws => ~open
       /\ messageIdCounter' = [messageIdCounter EXCEPT ![t] = id]
       /\ pendingCallbacks' = [pendingCallbacks EXCEPT ![t] = @ \cup {id}]
       /\ toBg' = IF open THEN [q EXCEPT ![t] = Append(@, Ev("message", p, m))] ELSE q
       /\ posted' = IF open THEN posted \cup {<<t, id, type>>} ELSE posted
       /\ cbGot' = IF throws
                   THEN [cbGot EXCEPT ![t] = @ \cup {Msg("senderror", id, t, "senderror")}]
                   ELSE cbGot
    /\ UNCHANGED <<reconnectTimers, toContent>>
    /\ UNCHANGED <<bgVars, hostVars, activity, drops, flips, notified, ticks>>
    /\ UNCHANGED <<syncVars, evalVars, frontVars>>

\* Events of the environment are counted; one run has at most MaxEnv of them.
EnvBudget == drops + flips + notified + ticks < MaxEnv

\* ---------------------------------------------------------- background.js
\* What chrome.runtime.connectNative can do: with the application running
\* the port is connected; without it the call throws, or returns a port
\* whose onDisconnect fires afterwards ("host not found").
ConnectOutcomes == IF hostUp THEN {"connected"} ELSE {"throws", "disconnects"}

\* Mutant: the connection to the native host is not opened again.
connectNativeNever(o) ==
    /\ nativePort' = FALSE
    /\ nativeLive' = FALSE
    /\ fromHost' = fromHost

\* connectNative(), called only while nativePort is null.
connectNative(o) ==
    /\ nativePort' = (o # "throws")
    /\ nativeLive' = (o = "connected")
    /\ fromHost' = IF o = "disconnects" THEN <<HostEv("disconnect", NoMsg)>> ELSE fromHost

\* Mutant: the message is posted to the native port twice.
PostToHostTwice(inbox, live, m) == IF live THEN Append(Append(inbox, m), m) ELSE inbox

\* nativePort.postMessage: the pipe to a running host, in order.
PostToHost(inbox, live, m) == IF live THEN Append(inbox, m) ELSE inbox

\* chrome.runtime.onConnect listener.
BgOnConnect(t) ==
    /\ toBg[t] # <<>>
    /\ Head(toBg[t]).kind = "connect"
    /\ toBg' = [toBg EXCEPT ![t] = Tail(@)]
    /\ contentPorts' = [contentPorts EXCEPT ![t] = Head(toBg[t]).port]
    /\ UNCHANGED <<pendingRequests, nativePort, toContent, nextPort, portTab, portOpen>>
    /\ UNCHANGED <<contentVars, hostVars, activity, histVars>>
    /\ UNCHANGED <<syncVars, evalVars, frontVars>>

\* Mutant: the listener clears the whole session table.
DeleteAllPorts(cp, t) == [u \in Tabs |-> 0]

\* contentPorts.delete(tabId)
DeletePort(cp, t) == [cp EXCEPT ![t] = 0]

\* port.onDisconnect listener of the port of tab t.
BgOnDisconnect(t) ==
    /\ toBg[t] # <<>>
    /\ Head(toBg[t]).kind = "disconnect"
    /\ toBg' = [toBg EXCEPT ![t] = Tail(@)]
    /\ contentPorts' = DeletePort(contentPorts, t)
    /\ UNCHANGED <<pendingRequests, nativePort, toContent, nextPort, portTab, portOpen>>
    /\ UNCHANGED <<contentVars, hostVars, activity, histVars>>
    /\ UNCHANGED <<syncVars, evalVars, frontVars>>

\* port.onMessage listener of a port of tab t, for the messages that are
\* forwarded to the native host (the request types content.js sends with a
\* callback); o is the branch taken when the message is forwarded.
BgOnMessage(t, o) ==
    /\ toBg[t] # <<>>
    /\ Head(toBg[t]).kind = "message"
    /\ toBg' = [toBg EXCEPT ![t] = Tail(@)]
    /\ LET m == Head(toBg[t]).msg
           p == Head(toBg[t]).port
       IN
       /\ pendingRequests' = IF m.requestId # 0
                             THEN [pendingRequests EXCEPT ![m.requestId] = t]
                             ELSE pendingRequests
       /\ IF nativePort
          THEN /\ o = "forward"
               /\ hostInbox' = PostToHost(hostInbox, nativeLive, m)
               /\ UNCHANGED <<nativePort, nativeLive, fromHost, toContent>>
          ELSE /\ o \in ConnectOutcomes
               /\ connectNative(o)
               /\ hostInbox' = IF nativePort' THEN PostToHost(hostInbox, nativeLive', m)
                               ELSE hostInbox
               /\ toContent' = IF ~nativePort' /\ m.requestId # 0
                               THEN PostToContent(toContent, p, OfflineResponse(m))
                               ELSE toContent
    /\ UNCHANGED <<contentPorts, hostUp, nextPort, portTab, portOpen>>
    /\ UNCHANGED <<contentVars, activity, histVars>>
    /\ UNCHANGED <<syncVars, evalVars, frontVars>>

\* Mutant: only the first registered session gets the message.
BroadcastFirstOnly(q, m) ==
    LET reg == {u \in Tabs : contentPorts[u] # 0} IN
    IF reg = {} THEN q
    ELSE PostToContent(q, contentPorts[CHOOSE u \in reg : \A v \in reg : u <= v], m)

\* contentPorts.forEach(port => port.postMessage(message)), each post in
\* its own try/catch.
Broadcast(q, m) == [u \in Tabs |-> PostToContent(q, contentPorts[u], m)[u]]

\* nativePort.onMessage listener.
NativeOnMessage ==
    /\ fromHost # <<>>
    /\ Head(fromHost).kind = "message"
    /\ fromHost' = Tail(fromHost)
    /\ LET m == Head(fromHost).msg IN
       IF m.requestId # 0 /\ pendingRequests[m.requestId] # 0
       THEN /\ pendingRequests' = [pendingRequests EXCEPT ![m.requestId] = 0]
            /\ toContent' = PostToContent(toContent,
                                          contentPorts[pendingRequests[m.requestId]], m)
       ELSE /\ toContent' = Broadcast(toContent, m)
            /\ UNCHANGED pendingRequests
    /\ UNCHANGED <<contentPorts, nativePort, hostUp, nativeLive, hostInbox>>
    /\ UNCHANGED <<nextPort, portTab, portOpen, toBg>>
    /\ UNCHANGED <<contentVars, activity, histVars>>
    /\ UNCHANGED <<syncVars, evalVars, frontVars>>

\* nativePort.onDisconnect listener.
NativeOnDisconnect ==
    /\ fromHost # <<>>
    /\ Head(fromHost).kind = "disconnect"
    /\ fromHost' = Tail(fromHost)
    /\ nativePort' = FALSE
    /\ UNCHANGED <<contentPorts, pendingRequests, hostUp, nativeLive, hostInbox>>
    /\ UNCHANGED <<contentVars, chromeVars, activity, histVars>>
    /\ UNCHANGED <<syncVars, evalVars, frontVars>>

\* The 295-second keep-alive interval.
KeepAliveTick(o) ==
    /\ ticks < MaxTicks
    /\ EnvBudget
    /\ ticks' = ticks + 1
    /\ IF nativePort
       THEN /\ o = "forward"
            /\ hostInbox' = PostToHost(hostInbox, nativeLive, KeepAlive)
            /\ UNCHANGED <<nativePort, nativeLive, fromHost>>
       ELSE /\ o \in ConnectOutcomes
            /\ connectNative(o)
            /\ UNCHANGED hostInbox
    /\ UNCHANGED <<contentPorts, pendingRequests, hostUp>>
    /\ UNCHANGED <<contentVars, chromeVars, activity, cbGot, posted, drops, flips, notified>>
    /\ UNCHANGED <<syncVars, evalVars, frontVars>>

\* -------------------------------------------------- native host and store
\* append_activity of the local durable store: the record gets the next
\* local surrogate id; canonicalId = 0 means "not yet assigned".
append_activity(store, origin, requestId) ==
    Append(store, [localId |-> Len(store) + 1, origin |-> origin,
                   requestId |-> requestId, canonicalId |-> 0,
                   synced |-> FALSE])

\* The host takes the next request from its pipe, applies it (a LOG_OUTREACH
\* appends an activity record) and answers a request that carries a
\* requestId with a response carrying the same requestId.
HostApply ==
    /\ hostUp
    /\ hostInbox # <<>>
    /\ hostInbox' = Tail(hostInbox)
    /\ LET m == Head(hostInbox) IN
       /\ activity' = IF m.type = "LOG_OUTREACH"
                      THEN append_activity(activity, m.origin, m.requestId)
                      ELSE activity
       /\ fromHost' = IF m.requestId # 0
                      THEN Append(fromHost, HostEv("message", HostResponse(m)))
                      ELSE fromHost
    /\ UNCHANGED <<hostUp, nativeLive>>
    /\ UNCHANGED <<contentVars, chromeVars, bgVars, histVars>>
    /\ UNCHANGED <<syncVars, evalVars, frontVars>>

\* The host pushes an unsolicited message (no requestId).
HostNotify ==
    /\ hostUp
    /\ nativeLive
    /\ notified < MaxNotify
    /\ EnvBudget
    /\ notified' = notified + 1
    /\ fromHost' = Append(fromHost, HostEv("message", Notification))
    /\ UNCHANGED <<hostUp, nativeLive, hostInbox>>
    /\ UNCHANGED <<contentVars, chromeVars, bgVars, activity, cbGot, posted, drops, flips, ticks>>
    /\ UNCHANGED <<syncVars, evalVars, frontVars>>

\* The desktop application is closed: the pipe of a connected native port
\* breaks and requests not yet applied are lost.
HostStop ==
    /\ hostUp
    /\ flips < MaxHostFlips
    /\ EnvBudget
    /\ flips' = flips + 1
    /\ hostUp' = FALSE
    /\ nativeLive' = FALSE
    /\ hostInbox' = <<>>
    /\ fromHost' = IF nativeLive THEN Append(fromHost, HostEv("disconnect", NoMsg))
                   ELSE fromHost
    /\ UNCHANGED <<contentVars, chromeVars, bgVars, activity, cbGot, posted, drops, notified, ticks>>
    /\ UNCHANGED <<syncVars, evalVars, frontVars>>

\* The desktop application is started.
HostStart ==
    /\ ~hostUp
    /\ flips < MaxHostFlips
    /\ EnvBudget
    /\ flips' = flips + 1
    /\ hostUp' = TRUE
    /\ UNCHANGED <<nativeLive, hostInbox, fromHost>>
    /\ UNCHANGED <<contentVars, chromeVars, bgVars, activity, cbGot, posted, drops, notified, ticks>>
    /\ UNCHANGED <<syncVars, evalVars, frontVars>>

\* ----------------------------------------------------------------- browser
\* The browser closes port p; both ends get onDisconnect.
PortDisconnect(p) ==
    /\ portOpen[p]
    /\ drops < MaxDrops
    /\ EnvBudget
    /\ drops' = drops + 1
    /\ portOpen' = [portOpen EXCEPT ![p] = FALSE]
    /\ toBg' = [toBg EXCEPT ![portTab[p]] = Append(@, Ev("disconnect", p, NoMsg))]
    /\ toContent' = [toContent EXCEPT ![portTab[p]] = Append(@, Ev("disconnect", p, NoMsg))]
    /\ UNCHANGED <<nextPort, portTab>>
    /\ UNCHANGED <<contentVars, bgVars, hostVars, activity, cbGot, posted, flips, notified, ticks>>
    /\ UNCHANGED <<syncVars, evalVars, frontVars>>

\* ------------------------------------------- local store and sync engine
\* list_unsynced(limit): the activity records without canonical id, oldest
\* first, at most `limit` of them (as the set of their local ids).
list_unsynced(store, limit) ==
    LET un == {i \in 1..Len(store) : store[i].canonicalId = 0} IN
    {i \in un : Cardinality({j \in un : j < i}) < limit}

\* The canonical row the central store holds for correlation value c, or 0.
CanonicalOf(rows, c) ==
    IF \E k \in 1..Len(rows) : rows[k].corr = c
    THEN rows[CHOOSE k \in 1..Len(rows) : rows[k].corr = c].canonicalId
    ELSE 0

\* Mutant: the central store inserts every row it is sent, whether or not
\* it already holds a row with that correlation value.
RECURSIVE BatchInsertBlind(_, _)
BatchInsertBlind(rows, ok) ==
    IF ok = {} THEN rows
    ELSE LET c == CHOOSE x \in ok : \A y \in ok : x <= y
         IN BatchInsertBlind(Append(rows, [canonicalId |-> Len(rows) + 1, corr |-> c]),
                             ok \ {c})

\* Batch insert of the central store for the accepted rows `ok`: a row whose
\* correlation value is already there is not inserted again, every other
\* row gets the next canonical id, in the order of the batch.
RECURSIVE BatchInsert(_, _)
BatchInsert(rows, ok) ==
    IF ok = {} THEN rows
    ELSE LET c == CHOOSE x \in ok : \A y \in ok : x <= y
             next == IF CanonicalOf(rows, c) # 0 THEN rows
                     ELSE Append(rows, [canonicalId |-> Len(rows) + 1, corr |-> c])
         IN BatchInsert(next, ok \ {c})

\* Mutant: the canonical-id column is rewritten from the mapping alone, so a
\* record the mapping does not name loses its canonical id.
reconcile_ids_rewrite(store, map) ==
    [i \in 1..Len(store) |->
        [store[i] EXCEPT !.canonicalId =
            IF \E pr \in map : pr[1] = store[i].localId
            THEN (CHOOSE pr \in map : pr[1] = store[i].localId)[2]
            ELSE 0]]

\* Mutant: every record selected so far is marked, whether or not the
\* mapping names it (UPDATE ... SET synced_to_cloud = 1 without the id list).
reconcile_ids_markall(store, map) ==
    [i \in 1..Len(store) |->
        IF store[i].canonicalId # 0 THEN store[i]
        ELSE IF \E pr \in map : pr[1] = store[i].localId
        THEN [store[i] EXCEPT !.canonicalId =
                  (CHOOSE pr \in map : pr[1] = store[i].localId)[2],
                              !.synced = TRUE]
        ELSE [store[i] EXCEPT !.synced = (map # {})]]

\* Mutant: the temporary id of the record is replaced by the canonical id,
\* so the record answers to another key afterwards.
reconcile_ids_replace(store, map) ==
    [i \in 1..Len(store) |->
        IF \E pr \in map : pr[1] = store[i].localId
        THEN [store[i] EXCEPT !.canonicalId =
                  (CHOOSE pr \in map : pr[1] = store[i].localId)[2],
                              !.localId =
                  (CHOOSE pr \in map : pr[1] = store[i].localId)[2],
                              !.synced = TRUE]
        ELSE store[i]]

\* reconcile_ids(mapping): attaches the canonical id to each mapped record
\* that has none and marks it synced; a record that already has one keeps
\* it.
reconcile_ids(store, map) ==
    [i \in 1..Len(store) |->
        IF store[i].canonicalId = 0 /\ \E pr \in map : pr[1] = store[i].localId
        THEN [store[i] EXCEPT !.canonicalId =
                  (CHOOSE pr \in map : pr[1] = store[i].localId)[2],
                              !.synced = TRUE]
        ELSE store[i]]

\* The records of a mapping that already carry a different canonical id.
IdentityConflicts(store, map) ==
    {pr[1] : pr \in {q \in map : \E i \in 1..Len(store) :
                        /\ store[i].localId = q[1]
                        /\ store[i].canonicalId # 0
                        /\ store[i].canonicalId # q[2]}}

\* Mutant: the delay doubles without a ceiling.
NextDelayUncapped(d) == 2 * d

\* The delay after one more failure: twice the last one, at most MaxDelay.
NextDelay(d) == IF 2 * d > MaxDelay THEN MaxDelay ELSE 2 * d

\* A capture passes the gate and is appended to the local store.
Capture ==
    /\ Len(activity) < MaxRecords
    /\ activity' = append_activity(activity, 1, Len(activity) + 1)
    /\ UNCHANGED <<gateVars, syncVars, evalVars, frontVars>>

\* The wall clock of the host moves on.
Tick ==
    /\ localClock < MaxClock
    /\ localClock' = localClock + 1
    /\ UNCHANGED <<frontVars, evalVars, gateVars, activity, storeVars, centralVars, pushResp, conflicts,
                   loopVars, faults, pushed>>

\* Somebody changes reference row x in the central store, which stamps it
\* with a newer last-modified value.
CentralEdit(x, ts) ==
    /\ ts \in 1..MaxServerTime
    /\ \A y \in Targets : centralRef[y] < ts
    /\ centralRef' = [centralRef EXCEPT ![x] = ts]
    /\ UNCHANGED <<frontVars, evalVars, gateVars, activity, storeVars, central, pushResp, conflicts,
                   localClock, loopVars, faults, pushed>>

\* Pull, the delta query: SELECT ... WHERE LAST_UPDATED > :last_cloud_sync.
\* The rows come back as <<row, last-modified>> and a transaction opens.
PullFetch ==
    /\ phase = "pull"
    /\ ~txn.open
    /\ txn' = [open |-> TRUE,
               rows |-> {<<x, centralRef[x]>> :
                            x \in {y \in Targets : centralRef[y] > watermark}},
               staged |-> {}]
    /\ UNCHANGED <<frontVars, evalVars, gateVars, activity, watermark, refCache, centralVars, pushResp,
                   conflicts, localClock, loopVars, faults, pushed>>

\* Mutant: the row is written to the table in place, outside a transaction.
StageRowInPlace(cache, x, ts) == [cache EXCEPT ![x] = ts]

\* What readers of the reference table see after row x was written inside
\* the open transaction: the committed table, unchanged.
StageRow(cache, x, ts) == cache

\* One row of the batch is written inside the transaction.
UpsertRow(x) ==
    /\ txn.open
    /\ \E pr \in txn.rows \ txn.staged :
          /\ pr[1] = x
          /\ txn' = [txn EXCEPT !.staged = @ \cup {pr}]
          /\ refCache' = StageRow(refCache, x, pr[2])
    /\ UNCHANGED <<frontVars, evalVars, gateVars, activity, watermark, centralVars, pushResp, conflicts,
                   localClock, loopVars, faults, pushed>>

\* The largest last-modified value among the rows of a batch (0 if none).
MaxModified(rows) ==
    IF rows = {} THEN 0
    ELSE CHOOSE w \in {pr[2] : pr \in rows} : \A pr \in rows : pr[2] <= w

\* Mutant: the watermark is the largest last-modified value of the batch,
\* also when the batch is empty.
NewWatermarkOfRows(now, rows, wm) == MaxModified(rows)

\* The value written to last_cloud_sync at the end of a Pull: NOW().
NewWatermark(now, rows, wm) == now

\* upsert_reference_batch(rows, new_watermark): the commit of the
\* transaction replaces or inserts every row of the batch and writes the
\* watermark.
upsert_reference_batch(rows, wm) ==
    /\ refCache' = [x \in Targets |->
                       IF \E pr \in rows : pr[1] = x
                       THEN (CHOOSE pr \in rows : pr[1] = x)[2]
                       ELSE refCache[x]]
    /\ watermark' = wm

\* Pull, the end: every row is written, the transaction commits and the
\* loop goes on to Push.
PullCommit ==
    /\ txn.open
    /\ txn.staged = txn.rows
    /\ upsert_reference_batch(txn.rows, NewWatermark(localClock, txn.rows, watermark))
    /\ txn' = NoTxn
    /\ phase' = "push"
    /\ UNCHANGED <<frontVars, evalVars, gateVars, activity, centralVars, pushResp, conflicts,
                   localClock, delay, syncStatus, faults, pushed>>

\* Pull fails (the network is down, the query or a write raises): an open
\* transaction is rolled back and the loop backs off.
PullFail ==
    /\ phase = "pull"
    /\ faults < MaxFaults
    /\ txn' = NoTxn
    /\ delay' = NextDelay(delay)
    /\ syncStatus' = "error"
    /\ faults' = faults + 1
    /\ UNCHANGED <<frontVars, evalVars, gateVars, activity, watermark, refCache, centralVars, pushResp,
                   conflicts, localClock, phase, pushed>>

\* Push: the unsynced batch is submitted; the central store inserts the
\* rows of `ok` and rejects the others; the mapping of the inserted rows
\* travels back.
PushSubmit(ok) ==
    /\ phase = "push"
    /\ ~pushResp.pending
    /\ LET batch == list_unsynced(activity, BatchLimit) IN
       /\ batch # {}
       /\ ok \subseteq batch
       /\ (ok # batch) => faults < MaxFaults
       /\ faults' = IF ok # batch THEN faults + 1 ELSE faults
       /\ central' = BatchInsert(central, ok)
       /\ pushResp' = [pending |-> TRUE, batch |-> batch,
                       map |-> {<<c, CanonicalOf(central', c)>> : c \in ok}]
       /\ pushed' = [c \in 1..MaxRecords |->
                        IF c \in ok /\ pushed[c] < 2 THEN pushed[c] + 1 ELSE pushed[c]]
    /\ UNCHANGED <<frontVars, evalVars, gateVars, activity, storeVars, centralRef, conflicts, localClock,
                   loopVars>>

\* Push with nothing to send: the cycle is complete.
PushNothing ==
    /\ phase = "push"
    /\ ~pushResp.pending
    /\ list_unsynced(activity, BatchLimit) = {}
    /\ phase' = "pull"
    /\ delay' = BaseDelay
    /\ syncStatus' = "ok"
    /\ UNCHANGED <<frontVars, evalVars, gateVars, activity, storeVars, centralVars, pushResp, conflicts,
                   localClock, faults, pushed>>

\* The response of the batch insert arrives and is reconciled, also when it
\* reports rejected rows; the cycle is fully successful when it reports none.
PushReconcile ==
    /\ pushResp.pending
    /\ activity' = reconcile_ids(activity, pushResp.map)
    /\ conflicts' = conflicts \cup IdentityConflicts(activity, pushResp.map)
    /\ LET full == {pr[1] : pr \in pushResp.map} = pushResp.batch IN
       /\ delay' = IF full THEN BaseDelay ELSE delay
       /\ syncStatus' = IF full THEN "ok" ELSE "error"
    /\ pushResp' = NoResp
    /\ phase' = "pull"
    /\ UNCHANGED <<frontVars, evalVars, gateVars, storeVars, centralVars, localClock, faults, pushed>>

\* Mutant: the batch is marked as synced although no response arrived.
PushResponseLostMarksSynced ==
    /\ pushResp.pending
    /\ faults < MaxFaults
    /\ activity' = [i \in 1..Len(activity) |->
                       IF i \in pushResp.batch
                       THEN [activity[i] EXCEPT !.synced = TRUE]
                       ELSE activity[i]]
    /\ pushResp' = NoResp
    /\ phase' = "pull"
    /\ delay' = NextDelay(delay)
    /\ syncStatus' = "error"
    /\ faults' = faults + 1
    /\ UNCHANGED <<frontVars, evalVars, gateVars, storeVars, centralVars, conflicts, localClock, pushed>>

\* The response of the batch insert is dropped by the network; the loop
\* backs off and the batch is retried in a later cycle.
PushResponseLost ==
    /\ pushResp.pending
    /\ faults < MaxFaults
    /\ pushResp' = NoResp
    /\ phase' = "pull"
    /\ delay' = NextDelay(delay)
    /\ syncStatus' = "error"
    /\ faults' = faults + 1
    /\ UNCHANGED <<frontVars, evalVars, gateVars, activity, storeVars, centralVars, conflicts, localClock,
                   pushed>>

\* The host process stops and starts again: what is in memory (an open
\* transaction, a response on its way, the backoff) is gone, the store is
\* as it was committed.
Restart ==
    /\ faults < MaxFaults
    /\ txn' = NoTxn
    /\ pushResp' = NoResp
    /\ phase' = "pull"
    /\ delay' = BaseDelay
    /\ syncStatus' = "starting"
    /\ faults' = faults + 1
    /\ UNCHANGED <<frontVars, evalVars, gateVars, activity, watermark, refCache, centralVars, conflicts,
                   localClock, pushed>>

\* --------------------------------------------------------- safety evaluator
\* Rule.severity-derived level of a verdict.
Rank(v) == CASE v = "PASS" -> 0 [] v = "WARN" -> 1 [] v = "BLOCK" -> 2

\* Mutant: the verdict of the rule checked last replaces the one before.
WorseLast(v1, v2) == IF v2 # "PASS" THEN v2 ELSE v1

\* The more severe of two verdicts.
Worse(v1, v2) == IF Rank(v2) > Rank(v1) THEN v2 ELSE v1

\* Each acting account is owned by one operator.
OperatorOf(a) == 1

\* The rules a rules table can hold.
Rules ==
    {r \in [kind : {"FrequencyCap", "IntervalSpacing"}, threshold : 1..MaxLimit,
            window : 1..MaxWindow, severity : {"WARN", "BLOCK"},
            scope : {"account", "operator"}, scopeId : Accounts,
            active : BOOLEAN] :
        /\ (r.kind = "IntervalSpacing") => r.threshold = 1
        /\ (r.scope = "operator") => r.scopeId = 1}

\* The rules tables of at most n rows.
RECURSIVE RuleSetsUpTo(_)
RuleSetsUpTo(n) ==
    IF n = 0 THEN {{}}
    ELSE LET smaller == RuleSetsUpTo(n - 1) IN
         smaller \cup {rs \cup {r} : rs \in smaller, r \in Rules}

\* The rules tables of the model.
RuleSets == RuleSetsUpTo(MaxRules)

\* The Outreach records of account a in the log created at `since` or later.
RECURSIVE CountRecent(_, _, _)
CountRecent(log, a, since) ==
    IF log = <<>> THEN 0
    ELSE (IF /\ Head(log).account = a
             /\ Head(log).kind = "Outreach"
             /\ Head(log).createdAt >= since
          THEN 1 ELSE 0) + CountRecent(Tail(log), a, since)

\* Creation time of the most recent Outreach record of account a, or -1.
RECURSIVE LastOutreach(_, _)
LastOutreach(log, a) ==
    IF log = <<>> THEN -1
    ELSE LET rest == LastOutreach(Tail(log), a) IN
         IF Head(log).account = a /\ Head(log).kind = "Outreach" /\ Head(log).createdAt > rest
         THEN Head(log).createdAt
         ELSE rest

\* Mutant: the cap is reached only above the threshold.
OverCapStrict(count, threshold) == count > threshold

\* FrequencyCap: the count has reached the threshold.
OverCap(count, threshold) == count >= threshold

\* The verdict of one rule for account a at time now.
RuleVerdict(r, log, a, now) ==
    IF r.kind = "FrequencyCap"
    THEN IF OverCap(CountRecent(log, a, now - r.window), r.threshold)
         THEN r.severity ELSE "PASS"
    ELSE LET last == LastOutreach(log, a) IN
         IF last >= 0 /\ now - last < r.window THEN r.severity ELSE "PASS"

\* The active rules scoped to the account or to its operator; a rule scoped
\* to the operator gives way to a rule of the same kind scoped to the
\* account.
Applicable(rs, a, o) ==
    {r \in rs :
        /\ r.active
        /\ \/ r.scope = "account" /\ r.scopeId = a
           \/ /\ r.scope = "operator" /\ r.scopeId = o
              /\ ~\E q \in rs : /\ q.active
                                /\ q.scope = "account" /\ q.scopeId = a
                                /\ q.kind = r.kind}

\* The verdicts of the rules are combined one rule after the other.
RECURSIVE Combine(_, _, _, _, _)
Combine(rs, acc, log, a, now) ==
    IF rs = {} THEN acc
    ELSE LET r == CHOOSE x \in rs : TRUE IN
         Combine(rs \ {r}, Worse(acc, RuleVerdict(r, log, a, now)), log, a, now)

\* evaluate(account_id, operator_id, Outreach, now)
evaluate(rs, log, a, o, now) == Combine(Applicable(rs, a, o), "PASS", log, a, now)

\* An Outreach attempt of account a is evaluated; after PASS or WARN the
\* record is written, after BLOCK it is written or not, as the caller
\* decides.
Attempt(a, logged) ==
    /\ Len(verdicts) < MaxAttempts
    /\ Len(eventLog) < MaxEvents
    /\ LET v == evaluate(rules, eventLog, a, OperatorOf(a), evalNow) IN
       /\ (v # "BLOCK") => logged
       /\ verdicts' = Append(verdicts, [account |-> a, verdict |-> v])
       /\ eventLog' = IF logged
                      THEN Append(eventLog, [account |-> a, kind |-> "Outreach",
                                             createdAt |-> evalNow])
                      ELSE eventLog
    /\ UNCHANGED <<frontVars, gateVars, activity, syncVars, rules, evalNow>>

\* A status edit of the user becomes a record of kind StatusChange.
StatusChange(a) ==
    /\ Len(eventLog) < MaxEvents
    /\ eventLog' = Append(eventLog, [account |-> a, kind |-> "StatusChange",
                                     createdAt |-> evalNow])
    /\ UNCHANGED <<frontVars, gateVars, activity, syncVars, rules, evalNow, verdicts>>

\* Time passes.
EvalTick ==
    /\ evalNow < MaxNow
    /\ evalNow' = evalNow + 1
    /\ UNCHANGED <<frontVars, gateVars, activity, syncVars, rules, eventLog, verdicts>>

\* ------------------------------------------------ outreach details (privacy)
\* The message stored with an Outreach record: nothing when the target is
\* flagged Excluded at the time of capture.  Texts are numbered from 1; 0 is
\* the empty message.
StoredMessageAlways(isExcluded, text) == text

StoredMessage(isExcluded, text) == IF isExcluded THEN 0 ELSE text

\* The operator flags a target Excluded, or takes the flag back.
SetExcluded(x) ==
    /\ excluded' = IF x \in excluded THEN excluded \ {x} ELSE excluded \cup {x}
    /\ UNCHANGED <<gateVars, activity, syncVars, evalVars, outreachDetail, uiVars,
                   discoveryVars, scrollerVars>>

\* An outreach to target x with message text passes the gate: the activity
\* record and its detail row are written in one transaction.  atCapture is
\* history: the exclusion flag of the target at that moment.
CaptureOutreach(x, text) ==
    /\ Len(activity) < MaxDetails
    /\ activity' = append_activity(activity, 1, Len(activity) + 1)
    /\ outreachDetail' = outreachDetail \cup
          {[activityId |-> Len(activity) + 1, target |-> x,
            message |-> StoredMessage(x \in excluded, text),
            atCapture |-> x \in excluded]}
    /\ UNCHANGED <<gateVars, syncVars, evalVars, excluded, uiVars, discoveryVars,
                   scrollerVars>>

\* ------------------------------------------- content.js: pages and banner
\* The pages the router of handleUrlChange tells apart: the profile page of
\* a user (profileRegex), a DM thread with a user (directRegex) and every
\* other page.  NoPage is the '' lastCheckedUrl starts with.
NoPage == [kind |-> "none", user |-> 0]

OtherPage == [kind |-> "other", user |-> 0]

Pages == {OtherPage} \cup {[kind |-> k, user |-> x] : k \in {"profile", "thread"}, x \in Targets}

\* The banner element: its data-state, the sync stage updateSyncStage has
\* given it after it was built and, as history, the user whose status it
\* was built for.
Banner(state, about) == [state |-> state, about |-> about, stage |-> ""]

NoBanner == Banner("none", 0)

\* updateSyncStage(banner, stage) on the banner found in the page, if any.
updateSyncStage(b, stage) == IF b = NoBanner THEN b ELSE [b EXCEPT !.stage = stage]

\* An armed timer, or a handler suspended at an await.
Task(kind, user, state, n) == [kind |-> kind, user |-> user, state |-> state, n |-> n]

\* No username poll is running.
NoPoll == [url |-> NoPage, attempts |-> 0]

\* A message handed to port.postMessage.  silent and page are history: the
\* silentRefresh argument of the check that sent it and the page on display.
Posted(type, id, target, actor, message, old, new, silent) ==
    [type |-> type, requestId |-> id, target |-> target, actor |-> actor,
     message |-> message, old_actor |-> old, new_actor |-> new,
     silent |-> silent, page |-> location]

\* Status checks the session may still post: MaxRequests less those posted
\* and those a suspended handler will post when it resumes.
RoomFor(k) ==
    Cardinality({i \in 1..Len(sent) : sent[i].type = "CHECK_PROSPECT_STATUS"})
       + Cardinality({t \in tasks : t.kind \in {"checkSend", "actorSwitch"}}) + k <= MaxRequests

\* sendMessageToBackground(data, callback) on an open port, after the
\* messages S: the request is numbered, its callback registered, and it is
\* posted.
PostRequest(S, type, target, actor, message, silent) ==
    /\ uiIdCounter' = uiIdCounter + 1
    /\ uiCallbacks' = uiCallbacks \cup {[id |-> uiIdCounter + 1, type |-> type, user |-> target]}
    /\ inFlight' = inFlight \cup {uiIdCounter + 1}
    /\ sent' = Append(S, Posted(type, uiIdCounter + 1, target, actor, message, 0, 0, silent))

\* startStatusRefresh(username): the old interval is cleared and a new one
\* is started if the tab is visible.
startStatusRefresh(u, vis) == IF vis THEN u ELSE 0

\* runProfileCheck(username, silentRefresh), called in a handler that has
\* brought the flag to inProg, lastCheckedUsername to lcu, the banner to b,
\* the tasks to T and the posted messages to S.  A silent check posts its
\* request at once; the other one removes the banner and is suspended in
\* showStatusBanner('searching') before it posts.
runProfileCheck(u, silent, inProg, lcu, b, T, S) ==
    IF inProg
    THEN /\ isCheckInProgress' = TRUE
         /\ lastCheckedUsername' = lcu
         /\ banner' = b
         /\ tasks' = T
         /\ sent' = S
         /\ UNCHANGED <<uiCallbacks, uiIdCounter, inFlight>>
    ELSE /\ isCheckInProgress' = TRUE
         /\ lastCheckedUsername' = u
         /\ IF silent
            THEN /\ banner' = b
                 /\ tasks' = T
                 /\ PostRequest(S, "CHECK_PROSPECT_STATUS", u, 0, 0, TRUE)
            ELSE /\ banner' = NoBanner
                 /\ tasks' = T \cup {Task("checkSend", u, "searching", 0)}
                 /\ sent' = S
                 /\ UNCHANGED <<uiCallbacks, uiIdCounter, inFlight>>

\* stopStatusRefresh(): the interval the variable refers to is cleared; n
\* counts the interval timers that are set.
stopStatusRefresh(n, cur) == IF cur # 0 THEN n - 1 ELSE n

\* Mutant: startStatusRefresh sets its interval without clearing the old one.
TimersStartedOnTop(n, cur, vis) == n + (IF vis THEN 1 ELSE 0)

\* The interval timers after startStatusRefresh: the old one is cleared and,
\* in a visible tab, a new one is set.
TimersStarted(n, cur, vis) == stopStatusRefresh(n, cur) + (IF vis THEN 1 ELSE 0)

\* What the actions of the session leave alone.
UiFrame == UNCHANGED <<gateVars, activity, syncVars, evalVars, detailVars, landing, discoveryVars,
                       scrollerVars>>

\* ------------------------------------------------------- dm_scroller.js
\* What the scroller leaves alone.
ScrollerFrame == UNCHANGED <<gateVars, activity, syncVars, evalVars, detailVars, uiVars,
                             discoveryVars>>

\* Mutant: stopScrolling forgets the timeout that is pending.
clearTimeoutNever(n, handle) == n

\* clearTimeout(scrollInterval) of stopScrolling: n counts the pending
\* timeouts; the handle refers to one of them unless it is null.
clearTimeout(n, handle) == IF handle # 0 THEN n - 1 ELSE n

\* stopScrolling(), with n timeouts pending.
stopScrolling(n) ==
    /\ isScrolling' = FALSE
    /\ scrollTimers' = clearTimeout(n, scrollInterval)
    /\ scrollInterval' = 0

\* checkUrl(), every second: on a /direct/ page the toggle button is created
\* and shown; elsewhere button and panel are hidden and scrolling is stopped.
checkUrl ==
    /\ IF IsDirect(location)
       THEN /\ toggleBtn' = "flex"
            /\ UNCHANGED <<panel, isScrolling, scrollInterval, scrollTimers>>
       ELSE /\ toggleBtn' = IF toggleBtn # "null" THEN "none" ELSE toggleBtn
            /\ panel' = IF panel # "null" THEN "none" ELSE panel
            /\ stopScrolling(scrollTimers)
    /\ UNCHANGED <<scrollTop, direction>>
    /\ ScrollerFrame

\* togglePanel(): a click on the toggle button.  createPanel() appends the
\* panel without a display of its own, so the first click leaves it on
\* 'none'.
togglePanel ==
    /\ toggleBtn = "flex"
    /\ panel' = IF panel = "none" THEN "block" ELSE "none"
    /\ UNCHANGED <<toggleBtn, isScrolling, scrollInterval, scrollTimers, scrollTop, direction>>
    /\ ScrollerFrame

\* The close button of the panel.
ClosePanel ==
    /\ panel = "block"
    /\ panel' = "none"
    /\ stopScrolling(scrollTimers)
    /\ UNCHANGED <<toggleBtn, scrollTop, direction>>
    /\ ScrollerFrame

\* setDirection(dir): the direction buttons of the panel.
setDirection(dir) ==
    /\ panel = "block"
    /\ direction' = dir
    /\ UNCHANGED <<toggleBtn, panel, isScrolling, scrollInterval, scrollTimers, scrollTop>>
    /\ ScrollerFrame

\* toggleScrolling(): the start button of the panel.  found: findDMContainer
\* returns a container.  startScrolling sets the flag and, by
\* requestNextTick, the 50 ms timeout.
toggleScrolling(found) ==
    /\ panel = "block"
    /\ IF isScrolling
       THEN stopScrolling(scrollTimers)
       ELSE IF found
            THEN /\ isScrolling' = TRUE
                 /\ scrollInterval' = 1
                 /\ scrollTimers' = scrollTimers + 1
            ELSE UNCHANGED <<isScrolling, scrollInterval, scrollTimers>>
    /\ UNCHANGED <<toggleBtn, panel, scrollTop, direction>>
    /\ ScrollerFrame

\* scrollToTop() and scrollToBottom(): the Top and Bottom buttons.
scrollTo(top, found) ==
    /\ panel = "block"
    /\ scrollTop' = IF found THEN top ELSE scrollTop
    /\ UNCHANGED <<toggleBtn, panel, isScrolling, scrollInterval, scrollTimers, direction>>
    /\ ScrollerFrame

\* container.scrollTop = target: the browser keeps it within the list.
Clamp(target) == IF target < 0 THEN 0 ELSE IF target > MaxScroll THEN MaxScroll ELSE target

\* performScrollStep(), run by its timeout, which is no longer pending: the
\* clearTimeout of stopScrolling finds nothing to clear.  step is Math.floor
\* of the accumulated pixels, 0 when less than one pixel has accumulated.
performScrollStep(found, step) ==
    /\ scrollTimers > 0
    /\ IF ~isScrolling
       THEN /\ scrollTimers' = scrollTimers - 1
            /\ UNCHANGED <<isScrolling, scrollInterval, scrollTop>>
       ELSE IF ~found
            THEN /\ isScrolling' = FALSE
                 /\ scrollTimers' = scrollTimers - 1
                 /\ scrollInterval' = 0
                 /\ UNCHANGED scrollTop
            ELSE /\ scrollTop' = Clamp(IF direction = "down" THEN scrollTop + step
                                       ELSE scrollTop - step)
                 /\ scrollInterval' = 1
                 /\ UNCHANGED <<isScrolling, scrollTimers>>
    /\ UNCHANGED <<toggleBtn, panel, direction>>
    /\ ScrollerFrame

\* ---------------------------------------------- content.js: page and router
\* The user navigates inside the single-page application; the page changes
\* under the content script and the MutationObserver arms its 50 ms timer.
\* A chat input stays the same element only from thread to thread.
Navigate(pg) ==
    /\ acts < MaxActs
    /\ pg # location
    /\ acts' = acts + 1
    /\ location' = pg
    /\ tasks' = tasks \cup {Task("urlChange", 0, "", 0)}
    /\ activeChatInput' = (activeChatInput /\ location.kind = "thread" /\ pg.kind = "thread")
    /\ UNCHANGED <<visible, lastCheckedUrl, lastCheckedUsername, isCheckInProgress,
                   statusRefreshInterval, refreshTimers, dmDiscoveryInterval, banner>>
    /\ UNCHANGED <<actorVars, requestVars, lost>>
    /\ UiFrame

\* The page changes without a navigation: the observer arms its timer.
DomMutation ==
    /\ acts < MaxActs
    /\ Task("urlChange", 0, "", 0) \notin tasks
    /\ acts' = acts + 1
    /\ tasks' = tasks \cup {Task("urlChange", 0, "", 0)}
    /\ UNCHANGED <<location, visible, lastCheckedUrl, lastCheckedUsername, isCheckInProgress,
                   statusRefreshInterval, refreshTimers, dmDiscoveryInterval, activeChatInput, banner>>
    /\ UNCHANGED <<actorVars, requestVars, lost>>
    /\ UiFrame

\* handleUrlChange, run by the observer's timer.
handleUrlChange ==
    /\ Task("urlChange", 0, "", 0) \in tasks
    /\ LET T == tasks \ {Task("urlChange", 0, "", 0)} IN
       IF location = lastCheckedUrl
       THEN /\ tasks' = T
            /\ UNCHANGED <<lastCheckedUrl, lastCheckedUsername, isCheckInProgress,
                           statusRefreshInterval, refreshTimers, dmDiscoveryInterval, banner, requestVars>>
       ELSE /\ lastCheckedUrl' = location
            /\ statusRefreshInterval' = 0
            /\ refreshTimers' = stopStatusRefresh(refreshTimers, statusRefreshInterval)
            /\ CASE location.kind = "profile" ->
                      /\ RoomFor(1)
                      /\ dmDiscoveryInterval' = NoPoll
                      /\ runProfileCheck(location.user, FALSE, FALSE, location.user,
                                         NoBanner, T, sent)
                 [] location.kind = "thread" ->
                      /\ dmDiscoveryInterval' = [url |-> location, attempts |-> 0]
                      /\ isCheckInProgress' = FALSE
                      /\ banner' = NoBanner
                      /\ tasks' = T \cup {Task("showSearching", 0, "searching", 0)}
                      /\ UNCHANGED <<lastCheckedUsername, requestVars>>
                 [] OTHER ->
                      /\ dmDiscoveryInterval' = NoPoll
                      /\ isCheckInProgress' = FALSE
                      /\ banner' = NoBanner
                      /\ tasks' = T
                      /\ UNCHANGED <<lastCheckedUsername, requestVars>>
    /\ UNCHANGED <<location, visible, activeChatInput>>
    /\ UNCHANGED <<actorVars, acts, lost>>
    /\ UiFrame

\* showStatusBanner('searching', ...) of the DM branches, which nobody
\* awaits, resumes and puts its banner into the page.
ShowSearching ==
    /\ Task("showSearching", 0, "searching", 0) \in tasks
    /\ tasks' = tasks \ {Task("showSearching", 0, "searching", 0)}
    /\ banner' = Banner("searching", 0)
    /\ UNCHANGED <<location, visible, lastCheckedUrl, lastCheckedUsername, isCheckInProgress,
                   statusRefreshInterval, refreshTimers, dmDiscoveryInterval, activeChatInput>>
    /\ UNCHANGED <<actorVars, requestVars, acts, lost>>
    /\ UiFrame

\* One tick of the username poll of a DM thread (dmDiscoveryInterval).
\* found: getInstagramUsername reads the user of the thread on display.
PollTick(found) ==
    /\ dmDiscoveryInterval # NoPoll
    /\ IF location # dmDiscoveryInterval.url
       THEN /\ dmDiscoveryInterval' = NoPoll
            /\ UNCHANGED <<lastCheckedUsername, isCheckInProgress, banner, tasks, requestVars>>
       ELSE IF found
            THEN /\ isCheckInProgress \/ RoomFor(1)
                 /\ dmDiscoveryInterval' = NoPoll
                 /\ runProfileCheck(location.user, FALSE, isCheckInProgress, location.user,
                                    banner, tasks, sent)
            ELSE /\ dmDiscoveryInterval' =
                       IF dmDiscoveryInterval.attempts + 1 >= MaxPolls THEN NoPoll
                       ELSE [dmDiscoveryInterval EXCEPT !.attempts = @ + 1]
                 /\ banner' = IF dmDiscoveryInterval.attempts + 1 >= MaxPolls
                              THEN updateSyncStage(banner, "detection-failed")
                              ELSE banner
                 /\ UNCHANGED <<lastCheckedUsername, isCheckInProgress, tasks, requestVars>>
    /\ UNCHANGED <<location, visible, lastCheckedUrl, statusRefreshInterval, refreshTimers, activeChatInput>>
    /\ UNCHANGED <<actorVars, acts, lost>>
    /\ UiFrame

\* The 300 ms initial check armed by initialize().
InitialCheck ==
    /\ Task("initialCheck", 0, "", 0) \in tasks
    /\ LET T == tasks \ {Task("initialCheck", 0, "", 0)} IN
       CASE location.kind = "profile" ->
              /\ RoomFor(1)
              /\ lastCheckedUrl' = location
              /\ runProfileCheck(location.user, FALSE, FALSE, location.user, banner, T, sent)
         [] location.kind = "thread" ->
              /\ lastCheckedUrl' = location
              /\ isCheckInProgress' = FALSE
              /\ banner' = NoBanner
              /\ tasks' = T \cup {Task("showSearching", 0, "searching", 0),
                                  Task("waitForElement", 0, "", 0)}
              /\ UNCHANGED <<lastCheckedUsername, requestVars>>
         [] OTHER ->
              /\ isCheckInProgress' = FALSE
              /\ tasks' = T
              /\ UNCHANGED <<lastCheckedUrl, lastCheckedUsername, banner, requestVars>>
    /\ UNCHANGED <<location, visible, statusRefreshInterval, refreshTimers, dmDiscoveryInterval,
                   activeChatInput>>
    /\ UNCHANGED <<actorVars, acts, lost>>
    /\ UiFrame

\* waitForElement of the initial check ends: the chat container is there and
\* getInstagramUsername reads the user of the page on display, or the
\* username is not found, or the wait times out.
WaitForElement(found) ==
    /\ Task("waitForElement", 0, "", 0) \in tasks
    /\ LET T == tasks \ {Task("waitForElement", 0, "", 0)} IN
       IF found /\ location.user # 0
       THEN /\ isCheckInProgress \/ RoomFor(1)
            /\ runProfileCheck(location.user, FALSE, isCheckInProgress, location.user,
                               banner, T, sent)
       ELSE /\ tasks' = T
            /\ banner' = updateSyncStage(banner, "detection-failed")
            /\ UNCHANGED <<lastCheckedUsername, isCheckInProgress, requestVars>>
    /\ UNCHANGED <<location, visible, lastCheckedUrl, statusRefreshInterval, refreshTimers,
                   dmDiscoveryInterval, activeChatInput>>
    /\ UNCHANGED <<actorVars, acts, lost>>
    /\ UiFrame

\* findAndAttach, every second: the keydown listener is attached to the chat
\* input of a DM page and dropped elsewhere.
findAndAttach ==
    /\ activeChatInput # (location.kind = "thread")
    /\ activeChatInput' = (location.kind = "thread")
    /\ UNCHANGED <<location, visible, lastCheckedUrl, lastCheckedUsername, isCheckInProgress,
                   statusRefreshInterval, refreshTimers, dmDiscoveryInterval, banner, tasks>>
    /\ UNCHANGED <<actorVars, requestVars, acts, lost>>
    /\ UiFrame

\* ------------------------------------------------ content.js: status check
\* runProfileCheck resumes after its showStatusBanner('searching'): the
\* banner is in the page and the CHECK_PROSPECT_STATUS request is posted.
CheckSend(u) ==
    /\ Task("checkSend", u, "searching", 0) \in tasks
    /\ tasks' = tasks \ {Task("checkSend", u, "searching", 0)}
    /\ banner' = Banner("searching", u)
    /\ PostRequest(sent, "CHECK_PROSPECT_STATUS", u, 0, 0, FALSE)
    /\ UNCHANGED <<location, visible, lastCheckedUrl, lastCheckedUsername, isCheckInProgress,
                   statusRefreshInterval, refreshTimers, dmDiscoveryInterval, activeChatInput>>
    /\ UNCHANGED <<actorVars, acts, lost>>
    /\ UiFrame

\* The "user navigated away" test of the callback of a check.
NavigatedAway(lcu, started) == lcu # started

\* The response to request r arrives (port.onMessage): the callback is
\* taken out of pendingCallbacks and called.  outcome is what the response
\* holds: "hit" (success; contacted), "miss" (success; not contacted) or
\* "error".
Respond(r, outcome) ==
    /\ r \in uiCallbacks
    /\ r.id \in inFlight
    /\ inFlight' = inFlight \ {r.id}
    /\ uiCallbacks' = uiCallbacks \ {r}
    /\ CASE r.type = "CHECK_PROSPECT_STATUS" ->
              IF NavigatedAway(lastCheckedUsername, r.user) \/ outcome = "error"
              THEN /\ isCheckInProgress' = FALSE
                   /\ UNCHANGED <<banner, tasks>>
              ELSE /\ banner' = NoBanner
                   /\ tasks' = tasks \cup
                         {Task("checkDone", r.user,
                               IF outcome = "hit" THEN "contacted" ELSE "not_contacted", 0)}
                   /\ UNCHANGED isCheckInProgress
         [] r.type = "LOG_OUTREACH" ->
              /\ outcome # "miss"
              /\ tasks' = IF outcome = "hit" THEN tasks \cup {Task("logRefresh", 0, "", 0)}
                          ELSE tasks
              /\ UNCHANGED <<isCheckInProgress, banner>>
         [] OTHER ->
              /\ outcome # "miss"
              /\ tasks' = IF outcome = "hit" THEN tasks \cup {Task("statusTimer", r.user, "", 0)}
                          ELSE tasks
              /\ UNCHANGED <<isCheckInProgress, banner>>
    /\ UNCHANGED <<location, visible, lastCheckedUrl, lastCheckedUsername,
                   statusRefreshInterval, refreshTimers, dmDiscoveryInterval, activeChatInput>>
    /\ UNCHANGED <<actorVars, uiIdCounter, sent, acts, lost>>
    /\ UiFrame

\* The gate leaves request r unanswered: it was forwarded to a native port
\* whose host had gone, or the host stopped before applying it.
RequestLost(r) ==
    /\ r \in uiCallbacks
    /\ r.id \in inFlight
    /\ lost < MaxLost
    /\ lost' = lost + 1
    /\ inFlight' = inFlight \ {r.id}
    /\ UNCHANGED <<pageVars, actorVars, uiCallbacks, uiIdCounter, sent, acts>>
    /\ UiFrame

\* The callback of a check resumes after its showStatusBanner: the banner
\* is in the page, the periodic refresh is started and the flag is cleared.
CheckDone(u, state) ==
    /\ Task("checkDone", u, state, 0) \in tasks
    /\ tasks' = tasks \ {Task("checkDone", u, state, 0)}
    /\ banner' = Banner(state, u)
    /\ statusRefreshInterval' = startStatusRefresh(u, visible)
    /\ refreshTimers' = TimersStarted(refreshTimers, statusRefreshInterval, visible)
    /\ isCheckInProgress' = FALSE
    /\ UNCHANGED <<location, visible, lastCheckedUrl, lastCheckedUsername,
                   dmDiscoveryInterval, activeChatInput>>
    /\ UNCHANGED <<actorVars, requestVars, acts, lost>>
    /\ UiFrame

\* The 30 s interval of startStatusRefresh fires and refreshes.
RefreshTick ==
    /\ statusRefreshInterval # 0
    /\ visible
    /\ lastCheckedUsername = statusRefreshInterval
    /\ ~isCheckInProgress
    /\ RoomFor(1)
    /\ runProfileCheck(statusRefreshInterval, TRUE, FALSE, lastCheckedUsername, banner,
                       tasks, sent)
    /\ UNCHANGED <<location, visible, lastCheckedUrl, statusRefreshInterval, refreshTimers,
                   dmDiscoveryInterval, activeChatInput>>
    /\ UNCHANGED <<actorVars, acts, lost>>
    /\ UiFrame

\* The tab is hidden or shown: handleVisibilityChange.
VisibilityChange ==
    /\ acts < MaxActs
    /\ acts' = acts + 1
    /\ visible' = ~visible
    /\ IF ~visible /\ lastCheckedUsername # 0
       THEN /\ isCheckInProgress \/ RoomFor(1)
            /\ runProfileCheck(lastCheckedUsername, TRUE, isCheckInProgress,
                               lastCheckedUsername, banner, tasks, sent)
            /\ statusRefreshInterval' = startStatusRefresh(lastCheckedUsername, TRUE)
            /\ refreshTimers' = TimersStarted(refreshTimers, statusRefreshInterval, TRUE)
       ELSE /\ statusRefreshInterval' = IF visible THEN 0 ELSE statusRefreshInterval
            /\ refreshTimers' = IF visible
                                 THEN stopStatusRefresh(refreshTimers, statusRefreshInterval)
                                 ELSE refreshTimers
            /\ UNCHANGED <<lastCheckedUsername, isCheckInProgress, banner, tasks, requestVars>>
    /\ UNCHANGED <<location, lastCheckedUrl, dmDiscoveryInterval, activeChatInput>>
    /\ UNCHANGED <<actorVars, lost>>
    /\ UiFrame

\* ------------------------------------------------- content.js: DM logging
\* The text of the chat input: the length of its whitespace margin and of
\* what trim() leaves.
Texts == [pad : 0..1, body : {0, 1, SnippetLimit, SnippetLimit + 1}]

\* messageText.trim()
Trim(text) == [pad |-> 0, body |-> text.body]

\* Mutant: the snippet is the whole trimmed text.
SubstringAll(text, n) == text

\* text.substring(0, n)
Substring(text, n) ==
    IF text.pad + text.body <= n THEN text
    ELSE IF text.pad >= n THEN [pad |-> n, body |-> 0]
    ELSE [pad |-> text.pad, body |-> n - text.pad]

\* The guard of logOutreach before it posts: no target, or no actor.
AbortLog(target, actor) == target = 0 \/ actor = 0

\* Mutant: the actor is read from the cache of the content script.
getActorUsernameCached == currentActorUsername

\* getActorUsername(): the stored username, or 'unknown_actor' (0).
getActorUsername == storedActor

\* The user presses Enter in the chat input of a thread: handleKeyDown and
\* logOutreach up to its await.  An empty or blank text ends it there.
PressEnter(text) ==
    /\ acts < MaxActs
    /\ location.kind = "thread"
    /\ activeChatInput
    /\ acts' = acts + 1
    /\ tasks' = IF text.pad + text.body = 0 \/ Trim(text).body = 0 THEN tasks
                ELSE tasks \cup {Task("logSend", getActorUsername, "", text.body)}
    /\ UNCHANGED <<location, visible, lastCheckedUrl, lastCheckedUsername, isCheckInProgress,
                   statusRefreshInterval, refreshTimers, dmDiscoveryInterval, activeChatInput, banner>>
    /\ UNCHANGED <<actorVars, requestVars, lost>>
    /\ UiFrame

\* logOutreach resumes with the actor username: the target is taken from
\* the links around the input (climbed: getTargetUsername finds the user of
\* the thread on display) or from lastCheckedUsername, and the request is
\* posted unless the guard aborts.
LogSend(t, climbed) ==
    /\ t \in tasks
    /\ t.kind = "logSend"
    /\ climbed => location.kind = "thread"
    /\ LET target == IF climbed THEN location.user ELSE lastCheckedUsername
           snippet == Substring(Trim([pad |-> 0, body |-> t.n]), SnippetLimit)
       IN
       IF AbortLog(target, t.user)
       THEN UNCHANGED requestVars
       ELSE PostRequest(sent, "LOG_OUTREACH", target, t.user, snippet.pad + snippet.body, FALSE)
    /\ tasks' = tasks \ {t}
    /\ UNCHANGED <<location, visible, lastCheckedUrl, lastCheckedUsername, isCheckInProgress,
                   statusRefreshInterval, refreshTimers, dmDiscoveryInterval, activeChatInput, banner>>
    /\ UNCHANGED <<actorVars, acts, lost>>
    /\ UiFrame

\* The 500 ms timer armed when an outreach was logged: the banner is
\* refreshed.
LogRefresh ==
    /\ Task("logRefresh", 0, "", 0) \in tasks
    /\ IF lastCheckedUsername # 0 /\ ~isCheckInProgress
       THEN /\ RoomFor(1)
            /\ runProfileCheck(lastCheckedUsername, TRUE, FALSE, lastCheckedUsername, banner,
                               tasks \ {Task("logRefresh", 0, "", 0)}, sent)
       ELSE /\ tasks' = tasks \ {Task("logRefresh", 0, "", 0)}
            /\ UNCHANGED <<lastCheckedUsername, isCheckInProgress, banner, requestVars>>
    /\ UNCHANGED <<location, visible, lastCheckedUrl, statusRefreshInterval, refreshTimers,
                   dmDiscoveryInterval, activeChatInput>>
    /\ UNCHANGED <<actorVars, acts, lost>>
    /\ UiFrame

\* ---------------------------------------------- content.js: status dropdown
\* The user picks a status in the dropdown of the banner: the change
\* listener and updateProspectStatus, which posts the request for
\* lastCheckedUsername.
ChangeStatus ==
    /\ acts < MaxActs
    /\ banner.state \in {"contacted", "not_contacted"}
    /\ lastCheckedUsername # 0
    /\ acts' = acts + 1
    /\ PostRequest(sent, "UPDATE_PROSPECT_STATUS", lastCheckedUsername, getActorUsername, 0,
                   FALSE)
    /\ UNCHANGED <<pageVars, actorVars, lost>>
    /\ UiFrame

\* The 1500 ms timer armed by a successful status update calls
\* showStatusBanner('contacted', ...), which removes the banner and waits.
StatusTimer(u) ==
    /\ Task("statusTimer", u, "", 0) \in tasks
    /\ tasks' = (tasks \ {Task("statusTimer", u, "", 0)})
                   \cup {Task("statusShow", u, "contacted", 0)}
    /\ banner' = NoBanner
    /\ UNCHANGED <<location, visible, lastCheckedUrl, lastCheckedUsername, isCheckInProgress,
                   statusRefreshInterval, refreshTimers, dmDiscoveryInterval, activeChatInput>>
    /\ UNCHANGED <<actorVars, requestVars, acts, lost>>
    /\ UiFrame

\* ... and resumes: the banner is in the page and the refresh is started.
StatusShow(u) ==
    /\ Task("statusShow", u, "contacted", 0) \in tasks
    /\ tasks' = tasks \ {Task("statusShow", u, "contacted", 0)}
    /\ banner' = Banner("contacted", u)
    /\ statusRefreshInterval' = startStatusRefresh(u, visible)
    /\ refreshTimers' = TimersStarted(refreshTimers, statusRefreshInterval, visible)
    /\ UNCHANGED <<location, visible, lastCheckedUrl, lastCheckedUsername, isCheckInProgress,
                   dmDiscoveryInterval, activeChatInput>>
    /\ UNCHANGED <<actorVars, requestVars, acts, lost>>
    /\ UiFrame

\* -------------------------------------------- content.js: account switching
\* The user logs in to another account inside the application.
SwitchAccount(b) ==
    /\ acts < MaxActs
    /\ b # viewer
    /\ acts' = acts + 1
    /\ viewer' = b
    /\ UNCHANGED <<pageVars, storedActor, currentActorUsername, requestVars, lost>>
    /\ UiFrame

\* The old_actor of the ACTOR_SWITCH payload: the cached username at the
\* time the payload is built.
OldActor(from, cached) == cached

\* checkForActorSwitch, every 5 s, when the viewer's username can be scraped
\* from the page.  On a mismatch handleActorSwitch caches and stores the
\* new username and is suspended in chrome.storage.local.set; the task
\* holds, as history, the username that was stored before.
checkForActorSwitch ==
    /\ IF storedActor # 0 /\ viewer # storedActor
       THEN /\ RoomFor(1)
            /\ currentActorUsername' = viewer
            /\ storedActor' = viewer
            /\ tasks' = tasks \cup {Task("actorSwitch", viewer, "", storedActor)}
            /\ UNCHANGED sent
       ELSE IF storedActor = 0
       THEN /\ currentActorUsername' = viewer
            /\ storedActor' = viewer
            /\ sent' = Append(sent, Posted("FOUND_ACTOR_USERNAME", 0, 0, viewer, 0, 0, 0, FALSE))
            /\ UNCHANGED tasks
       ELSE /\ currentActorUsername = 0
            /\ currentActorUsername' = storedActor
            /\ UNCHANGED <<storedActor, tasks, sent>>
    /\ UNCHANGED <<location, visible, lastCheckedUrl, lastCheckedUsername, isCheckInProgress,
                   statusRefreshInterval, refreshTimers, dmDiscoveryInterval, activeChatInput, banner>>
    /\ UNCHANGED <<viewer, uiCallbacks, uiIdCounter, inFlight, acts, lost>>
    /\ UiFrame

\* handleActorSwitch resumes: ACTOR_SWITCH is posted and the banner of the
\* page is refreshed.
handleActorSwitch(t) ==
    /\ t \in tasks
    /\ t.kind = "actorSwitch"
    /\ LET S == Append(sent, Posted("ACTOR_SWITCH", 0, 0, 0, 0,
                                    OldActor(t.n, currentActorUsername), t.user, FALSE))
       IN
       IF lastCheckedUsername # 0 /\ ~isCheckInProgress
       THEN runProfileCheck(lastCheckedUsername, TRUE, FALSE, lastCheckedUsername, banner,
                            tasks \ {t}, S)
       ELSE /\ tasks' = tasks \ {t}
            /\ sent' = S
            /\ UNCHANGED <<lastCheckedUsername, isCheckInProgress, banner, uiCallbacks,
                           uiIdCounter, inFlight>>
    /\ UNCHANGED <<location, visible, lastCheckedUrl, statusRefreshInterval, refreshTimers,
                   dmDiscoveryInterval, activeChatInput>>
    /\ UNCHANGED <<actorVars, acts, lost>>
    /\ UiFrame

\* ------------------------------------------ background.js: actor discovery
\* A call of chrome.storage or chrome.tabs whose callback has not run yet;
\* n tells the calls of different events apart, tab is the tab created.
BgCall(kind, n, tab) == [kind |-> kind, n |-> n, tab |-> tab]

\* chrome.tabs.create of the discovery URL: the browser opens the tab, the
\* callback that stores its id runs later.
CreateDiscoveryTab(done, n) ==
    /\ tabsCreated < MaxDiscoveryTabs
    /\ tabsCreated' = tabsCreated + 1
    /\ discoveryTabs' = discoveryTabs \cup {tabsCreated + 1}
    /\ bgCallbacks' = (bgCallbacks \ {done}) \cup {BgCall("created", n, tabsCreated + 1)}

\* What the discovery actions leave alone.
DiscoveryFrame ==
    /\ UNCHANGED <<gateVars, activity, syncVars, evalVars, detailVars, scrollerVars>>
    /\ UNCHANGED <<pageVars, viewer, currentActorUsername, requestVars, acts, lost, landing>>

\* chrome.runtime.onInstalled fires with reason install or update:
\* chrome.storage.local.get is called.
OnInstalled ==
    /\ bgEvents < MaxBgEvents
    /\ bgEvents' = bgEvents + 1
    /\ bgCallbacks' = bgCallbacks \cup {BgCall("installedGet", bgEvents + 1, 0)}
    /\ UNCHANGED <<discoveryTabId, discoveryTabs, tabsCreated, storedActor>>
    /\ DiscoveryFrame

\* The callback of that get: without a stored username the discovery tab
\* is created.
InstalledGot(c) ==
    /\ c \in bgCallbacks
    /\ c.kind = "installedGet"
    /\ IF storedActor = 0
       THEN CreateDiscoveryTab(c, c.n)
       ELSE /\ bgCallbacks' = bgCallbacks \ {c}
            /\ UNCHANGED <<discoveryTabs, tabsCreated>>
    /\ UNCHANGED <<discoveryTabId, bgEvents, storedActor>>
    /\ DiscoveryFrame

\* A REQUEST_ACTOR_DISCOVERY message arrives: chrome.storage.local.get.
OnRequestDiscovery ==
    /\ bgEvents < MaxBgEvents
    /\ bgEvents' = bgEvents + 1
    /\ bgCallbacks' = bgCallbacks \cup {BgCall("requestGet", bgEvents + 1, 0)}
    /\ UNCHANGED <<discoveryTabId, discoveryTabs, tabsCreated, storedActor>>
    /\ DiscoveryFrame

\* The callback of that get: with a stored username the request is
\* ignored, else chrome.tabs.query looks for a discovery tab.
RequestGot(c) ==
    /\ c \in bgCallbacks
    /\ c.kind = "requestGet"
    /\ bgCallbacks' = IF storedActor # 0 THEN bgCallbacks \ {c}
                      ELSE (bgCallbacks \ {c}) \cup {BgCall("requestQuery", c.n, 0)}
    /\ UNCHANGED <<discoveryTabId, discoveryTabs, tabsCreated, bgEvents, storedActor>>
    /\ DiscoveryFrame

\* The callback of the query: with no discovery tab open one is created.
RequestQueried(c) ==
    /\ c \in bgCallbacks
    /\ c.kind = "requestQuery"
    /\ IF discoveryTabs # {}
       THEN /\ bgCallbacks' = bgCallbacks \ {c}
            /\ UNCHANGED <<discoveryTabs, tabsCreated>>
       ELSE CreateDiscoveryTab(c, c.n)
    /\ UNCHANGED <<discoveryTabId, bgEvents, storedActor>>
    /\ DiscoveryFrame

\* The callback of chrome.tabs.create: the id of the tab is stored.
TabCreated(c) ==
    /\ c \in bgCallbacks
    /\ c.kind = "created"
    /\ discoveryTabId' = c.tab
    /\ bgCallbacks' = bgCallbacks \ {c}
    /\ UNCHANGED <<discoveryTabs, tabsCreated, bgEvents, storedActor>>
    /\ DiscoveryFrame

\* A FOUND_ACTOR_USERNAME message arrives with username a (0: none or
\* 'unknown_actor'): a valid username is written to chrome.storage.
OnFoundActor(a) ==
    /\ bgEvents < MaxBgEvents
    /\ bgEvents' = bgEvents + 1
    /\ IF a # 0
       THEN /\ storedActor' = a
            /\ bgCallbacks' = bgCallbacks \cup {BgCall("stored", bgEvents + 1, 0)}
       ELSE UNCHANGED <<storedActor, bgCallbacks>>
    /\ UNCHANGED <<discoveryTabId, discoveryTabs, tabsCreated>>
    /\ DiscoveryFrame

\* The first tab chrome.tabs.query returns for the discovery URL.
FirstTab(tabs) == CHOOSE i \in tabs : \A j \in tabs : i <= j

\* The callback of that write: the discovery tab is removed, by its stored
\* id or, without one, by its URL.
ActorStored(c) ==
    /\ c \in bgCallbacks
    /\ c.kind = "stored"
    /\ bgCallbacks' = bgCallbacks \ {c}
    /\ IF discoveryTabId # 0
       THEN /\ discoveryTabs' = discoveryTabs \ {discoveryTabId}
            /\ discoveryTabId' = 0
       ELSE /\ discoveryTabs' = IF discoveryTabs # {}
                                THEN discoveryTabs \ {FirstTab(discoveryTabs)}
                                ELSE discoveryTabs
            /\ UNCHANGED discoveryTabId
    /\ UNCHANGED <<tabsCreated, bgEvents, storedActor>>
    /\ DiscoveryFrame

\* The background script's actor discovery on its own.
DiscoveryNext ==
    \/ OnInstalled
    \/ OnRequestDiscovery
    \/ \E a \in {0} \cup Accounts : OnFoundActor(a)
    \/ \E c \in bgCallbacks : InstalledGot(c)
    \/ \E c \in bgCallbacks : RequestGot(c)
    \/ \E c \in bgCallbacks : RequestQueried(c)
    \/ \E c \in bgCallbacks : TabCreated(c)
    \/ \E c \in bgCallbacks : ActorStored(c)

\* The router and the status check of one content-script session.
PageNext ==
    \/ \E pg \in Pages : Navigate(pg)
    \/ DomMutation
    \/ handleUrlChange
    \/ ShowSearching
    \/ \E found \in BOOLEAN : PollTick(found)
    \/ InitialCheck
    \/ \E found \in BOOLEAN : WaitForElement(found)
    \/ \E u \in Targets : CheckSend(u)
    \/ \E r \in uiCallbacks : \E outcome \in {"hit", "miss", "error"} : Respond(r, outcome)
    \/ \E u \in Targets : \E state \in {"contacted", "not_contacted"} : CheckDone(u, state)

\* One content-script session: the banner, its refreshes and the status
\* dropdown.
UiNext ==
    \/ PageNext
    \/ \E r \in uiCallbacks : RequestLost(r)
    \/ RefreshTick
    \/ VisibilityChange
    \/ ChangeStatus
    \/ \E u \in Targets : StatusTimer(u)
    \/ \E u \in Targets : StatusShow(u)

\* One content-script session: the banner and the account switch.
ActorNext ==
    \/ PageNext
    \/ \E b \in Accounts : SwitchAccount(b)
    \/ checkForActorSwitch
    \/ \E t \in tasks : handleActorSwitch(t)

\* One content-script session: the banner and the logging of sent messages.
LogNext ==
    \/ PageNext
    \/ findAndAttach
    \/ \E text \in Texts : PressEnter(text)
    \/ \E t \in tasks : \E climbed \in BOOLEAN : LogSend(t, climbed)
    \/ LogRefresh

\* One content-script session: the banner, the account switch and the
\* logging of sent messages.
SwitchLogNext ==
    \/ PageNext
    \/ \E b \in Accounts : SwitchAccount(b)
    \/ checkForActorSwitch
    \/ \E t \in tasks : handleActorSwitch(t)
    \/ findAndAttach
    \/ \E text \in Texts : PressEnter(text)
    \/ \E t \in tasks : \E climbed \in BOOLEAN : LogSend(t, climbed)
    \/ LogRefresh

\* ------------------------------------------------------------ specification
Outcomes == {"forward", "connected", "throws", "disconnects"}

Next ==
    \/ \E t \in Tabs : \E type \in CallbackTypes : \E throws \in BOOLEAN :
          SendRequest(t, type, throws)
    \/ \E t \in Tabs : ReconnectTimer(t)
    \/ \E t \in Tabs : ContentOnDisconnect(t)
    \/ \E t \in Tabs : ContentOnMessage(t)
    \/ \E t \in Tabs : BgOnConnect(t)
    \/ \E t \in Tabs : BgOnDisconnect(t)
    \/ \E t \in Tabs : \E o \in Outcomes : BgOnMessage(t, o)
    \/ NativeOnMessage
    \/ NativeOnDisconnect
    \/ \E o \in Outcomes : KeepAliveTick(o)
    \/ HostApply
    \/ HostNotify
    \/ HostStop
    \/ HostStart
    \/ \E p \in Ports : PortDisconnect(p)

Spec == Init /\ [][Next]_vars

\* Every queued event is eventually dispatched to its listener, every armed
\* timer fires and a running host works off its pipe.  What the user, the
\* browser and the host application do is not forced.
Fairness ==
    /\ \A t \in Tabs : WF_vars(ReconnectTimer(t))
    /\ \A t \in Tabs : WF_vars(ContentOnDisconnect(t))
    /\ \A t \in Tabs : WF_vars(ContentOnMessage(t))
    /\ \A t \in Tabs : WF_vars(BgOnConnect(t))
    /\ \A t \in Tabs : WF_vars(BgOnDisconnect(t))
    /\ \A t \in Tabs : WF_vars(\E o \in Outcomes : BgOnMessage(t, o))
    /\ WF_vars(NativeOnMessage)
    /\ WF_vars(NativeOnDisconnect)
    /\ WF_vars(HostApply)

FairSpec == Spec /\ Fairness

\* The local store and the sync engine on their own.
SyncNext ==
    \/ Capture
    \/ Tick
    \/ \E x \in Targets : \E ts \in 1..MaxServerTime : CentralEdit(x, ts)
    \/ PullFetch
    \/ \E x \in Targets : UpsertRow(x)
    \/ PullCommit
    \/ PullFail
    \/ \E ok \in SUBSET (1..MaxRecords) : PushSubmit(ok)
    \/ PushNothing
    \/ PushReconcile
    \/ PushResponseLost
    \/ Restart

SyncSpec == Init /\ [][SyncNext]_vars

\* The sync loop keeps running: each of its own steps is taken when it stays
\* possible.  Failures, restarts, captures and edits are not forced.
SyncFairness ==
    /\ WF_vars(PullFetch)
    /\ WF_vars(\E x \in Targets : UpsertRow(x))
    /\ WF_vars(PullCommit)
    /\ WF_vars(\E ok \in SUBSET (1..MaxRecords) : PushSubmit(ok))
    /\ WF_vars(PushNothing)
    /\ WF_vars(PushReconcile)

FairSyncSpec == SyncSpec /\ SyncFairness

\* The mappings from local ids to canonical ids over the ids of the model.
Mappings ==
    UNION {{{<<c, f[c]>> : c \in S} : f \in [S -> 1..MaxRecords]} :
              S \in SUBSET (1..MaxRecords)}

\* reconcile_ids is called with an arbitrary mapping.
ApplyMapping(map) ==
    /\ activity' = reconcile_ids(activity, map)
    /\ conflicts' = conflicts \cup IdentityConflicts(activity, map)
    /\ UNCHANGED <<frontVars, evalVars, gateVars, storeVars, centralVars, pushResp, localClock, loopVars,
                   faults, pushed>>

\* The local store under arbitrary calls of reconcile_ids.
ReconcileNext ==
    \/ Capture
    \/ \E map \in Mappings : ApplyMapping(map)

\* The host application is running.
ReconcileInit == Init /\ hostUp

ReconcileSpec == ReconcileInit /\ [][ReconcileNext]_vars

\* The safety evaluator on its own, over every rules table of the model.
EvalInit == InitBase /\ hostUp /\ rules \in RuleSets /\ FrontIdle

EvalNext ==
    \/ \E a \in Accounts : \E logged \in BOOLEAN : Attempt(a, logged)
    \/ \E a \in Accounts : StatusChange(a)
    \/ EvalTick

EvalSpec == EvalInit /\ [][EvalNext]_vars

\* The local store with outreach details, and the sync loop with its
\* failures, while the reference data stays as it is.
PrivacyNext ==
    \/ \E x \in Targets : SetExcluded(x)
    \/ \E x \in Targets : \E text \in 1..MaxText : CaptureOutreach(x, text)
    \/ PullFetch
    \/ PullCommit
    \/ PullFail
    \/ \E ok \in SUBSET (1..MaxRecords) : PushSubmit(ok)
    \/ PushNothing
    \/ PushReconcile
    \/ PushResponseLost

PrivacySpec == ReconcileInit /\ [][PrivacyNext]_vars /\ SyncFairness

\* One content-script session from its page load, on any page, with no
\* username stored yet or the one of the account logged in.
UiInit ==
    /\ InitBase /\ hostUp /\ rules = {} /\ DetailInit /\ DiscoveryInit
    /\ SessionInit(Pages, {1}, {0, 1})
    /\ ScrollerIdle

UiSpec == UiInit /\ [][UiNext]_vars

LogSpec == UiInit /\ [][LogNext]_vars

ActorSpec == UiInit /\ [][ActorNext]_vars

\* Armed timers fire, suspended handlers resume and the responses the gate
\* has for the session arrive.  What the user does, whether a username is
\* found in the page and whether the gate answers at all is not forced.
UiFairness ==
    /\ WF_vars(handleUrlChange)
    /\ WF_vars(ShowSearching)
    /\ WF_vars(InitialCheck)
    /\ WF_vars(\E found \in BOOLEAN : WaitForElement(found))
    /\ WF_vars(\E u \in Targets : CheckSend(u))
    /\ WF_vars(\E r \in uiCallbacks : \E outcome \in {"hit", "miss", "error"} : Respond(r, outcome))
    /\ WF_vars(\E u \in Targets : \E state \in {"contacted", "not_contacted"} : CheckDone(u, state))
    /\ WF_vars(\E t \in tasks : \E climbed \in BOOLEAN : LogSend(t, climbed))
    /\ WF_vars(LogRefresh)
    /\ WF_vars(\E u \in Targets : StatusTimer(u))
    /\ WF_vars(\E u \in Targets : StatusShow(u))
    /\ WF_vars(\E t \in tasks : handleActorSwitch(t))

FairUiSpec == UiSpec /\ UiFairness

\* The background script from its start, with or without a username in
\* chrome.storage.
DiscoveryStart ==
    /\ InitBase /\ hostUp /\ rules = {} /\ DetailInit /\ DiscoveryInit
    /\ SessionInit({[kind |-> "other", user |-> 0]}, {1}, {0, 1})
    /\ ScrollerIdle

DiscoverySpec == DiscoveryStart /\ [][DiscoveryNext]_vars

\* One session, loaded on a DM thread, in which the user switches accounts
\* and sends messages.
SwitchLogInit ==
    /\ InitBase /\ hostUp /\ rules = {} /\ DetailInit /\ DiscoveryInit
    /\ SessionInit({pg \in Pages : pg.kind = "thread"}, {1}, {0, 1})
    /\ ScrollerIdle

SwitchLogSpec == SwitchLogInit /\ [][SwitchLogNext]_vars

\* The scroller of one content-script session: the user navigates, clicks
\* the buttons of the scroller, and its timers fire.
ScrollerNext ==
    \/ \E pg \in Pages : Navigate(pg)
    \/ checkUrl
    \/ togglePanel
    \/ ClosePanel
    \/ \E dir \in {"down", "up"} : setDirection(dir)
    \/ \E found \in BOOLEAN : toggleScrolling(found)
    \/ \E top \in {0, MaxScroll} : \E found \in BOOLEAN : scrollTo(top, found)
    \/ \E found \in BOOLEAN : \E step \in 0..1 : performScrollStep(found, step)

ScrollerSpec == UiInit /\ [][ScrollerNext]_vars

\* ================================================================== claims
\* The background script dispatches the next event of tab t, of this kind.
BgTakes(t, kind) ==
    /\ toBg[t] # <<>>
    /\ Head(toBg[t]).kind = kind
    /\ toBg'[t] = Tail(toBg[t])

\* The background script dispatches the next message of the native host.
NativeTakes ==
    /\ fromHost # <<>>
    /\ Head(fromHost).kind = "message"
    /\ fromHost' = Tail(fromHost)

\* Messages on their way to the content script of tab t.
InFlightTo(t) == {toContent[t][i].msg : i \in {j \in 1..Len(toContent[t]) : toContent[t][j].kind = "message"}}

TypeOK ==
    /\ port \in [Tabs -> 0..MaxPorts]
    /\ pendingCallbacks \in [Tabs -> SUBSET ReqIds]
    /\ messageIdCounter \in [Tabs -> 0..MaxMsgId]
    /\ contentPorts \in [Tabs -> 0..MaxPorts]
    /\ pendingRequests \in [ReqIds -> Tabs \cup {0}]
    /\ nativePort \in BOOLEAN /\ nativeLive \in BOOLEAN /\ hostUp \in BOOLEAN
    /\ nativeLive => (nativePort /\ hostUp)
    /\ ~nativePort => fromHost = <<>>
    /\ \A t \in Tabs : contentPorts[t] # 0 => portTab[contentPorts[t]] = t
    /\ \A t \in Tabs : port[t] # 0 => portTab[port[t]] = t

\* C1: a host response carrying correlation id r is delivered to the session
\* that submitted the request it answers, and to no other session.
C1_RoutedToSubmitter ==
    \A t \in Tabs : \A m \in InFlightTo(t) :
        (m.type = "response" /\ m.requestId # 0) => m.origin = t

\* C2: a request with a correlation id that reaches the gate while the host
\* application is not running is answered, to the port it came from, with an
\* APPLICATION_OFFLINE error carrying the same requestId.
C2_OfflineAnswered ==
    [][\A t \in Tabs :
         (/\ BgTakes(t, "message")
          /\ Head(toBg[t]).msg.requestId # 0
          /\ portOpen[Head(toBg[t]).port]
          /\ ~hostUp)
         => OfflineResponse(Head(toBg[t]).msg) \in InFlightTo(t)']_vars

\* The callback of request r of tab t has been called.
Answered(t, r) == \E m \in cbGot[t] : m.requestId = r

\* C3: every request submitted with a correlation id eventually gets a
\* response (the host's answer or an error); none stays pending forever.
C3_EventuallyAnswered ==
    \A t \in Tabs : \A r \in ReqIds :
        (r \in pendingCallbacks[t]) ~> Answered(t, r)

C5_IdNeverBroadcast ==
    [][(NativeTakes /\ Head(fromHost).msg.requestId # 0)
         => Cardinality({u \in Tabs : toContent'[u] # toContent[u]}) <= 1]_vars

\* C6: when the port of one session disconnects, the gate changes only that
\* session's registration: the registrations of the other sessions, all
\* pending requests and everything in flight stay as they are.
C6_DisconnectFrame ==
    [][\A t \in Tabs :
         BgTakes(t, "disconnect")
         => /\ \A u \in Tabs \ {t} : contentPorts'[u] = contentPorts[u]
            /\ pendingRequests' = pendingRequests
            /\ toContent' = toContent
            /\ hostInbox' = hostInbox
            /\ fromHost' = fromHost]_vars

\* C6 witness: the disconnect of one session has been handled while another
\* session is registered and has a request pending at the gate.
C6_Witness ==
    \E t \in Tabs : \E u \in Tabs \ {t} :
        /\ ~portOpen[t] /\ contentPorts[t] = 0 /\ toBg[t] = <<>>
        /\ contentPorts[u] # 0
        /\ \E r \in ReqIds : pendingRequests[r] = u /\ <<u, r, "LOG_OUTREACH">> \in posted

\* C7: when the response to a request arrives after its session has
\* disconnected, its delivery is dropped and nothing is delivered to another
\* session in its place.
C7_DroppedNotRedirected ==
    [][(/\ NativeTakes
        /\ Head(fromHost).msg.requestId # 0
        /\ contentPorts[Head(fromHost).msg.origin] = 0)
         => \A u \in Tabs \ {Head(fromHost).msg.origin} : toContent'[u] = toContent[u]]_vars

\* No connect or disconnect event of tab t is waiting for the gate.
GateSettled(t) ==
    \A i \in 1..Len(toBg[t]) : toBg[t][i].kind = "message"

\* C8 (first part): whenever the content script of a tab has an open port
\* and the gate has handled all its connect and disconnect events, the
\* session table maps the tab to an open port of that script.
C8_TableTracksOpenPort ==
    \A t \in Tabs :
        (GateSettled(t) /\ \E p \in Ports : portTab[p] = t /\ portOpen[p])
        => (contentPorts[t] # 0 /\ portOpen[contentPorts[t]])

\* C8 (second part): the disconnect event of a port that is not the
\* registered one leaves the registration alone.
C8_OldDisconnectKeepsNewer ==
    \A t \in Tabs :
        (BgTakes(t, "disconnect") /\ contentPorts[t] # Head(toBg[t]).port)
        => contentPorts'[t] = contentPorts[t]

\* C8: after a disconnect and reconnect the session table maps the tab to
\* the currently open port, and the disconnect event of an old port never
\* removes the registration of a newer one.
C8_ReconnectKeepsRegistration ==
    []C8_TableTracksOpenPort /\ [][C8_OldDisconnectKeepsNewer]_vars

\* Requests the host has answered: their responses are on the way or consumed.
AnsweredByHost ==
    {<<e.msg.origin, e.msg.requestId>> :
        e \in {fromHost[i] : i \in {j \in 1..Len(fromHost) : fromHost[j].kind = "message"}}}
    \cup UNION {{<<m.origin, m.requestId>> :
                    m \in {n \in InFlightTo(t) \cup cbGot[t] :
                             n.type = "response" /\ n.err = "none"}} : t \in Tabs}

\* C9: writes submitted concurrently by two sessions are applied one at a
\* time: every record stems from one submitted write, no write is recorded
\* twice, every write the host has answered is recorded, and local ids are
\* the positions in the order of application, so no two records share one.
C9_NoLostNoDuplicate ==
    /\ \A i \in 1..Len(activity) :
          /\ activity[i].localId = i
          /\ <<activity[i].origin, activity[i].requestId, "LOG_OUTREACH">> \in posted
    /\ \A i, j \in 1..Len(activity) :
          (i # j) => <<activity[i].origin, activity[i].requestId>>
                       # <<activity[j].origin, activity[j].requestId>>
    /\ \A w \in AnsweredByHost :
          (<<w[1], w[2], "LOG_OUTREACH">> \in posted)
          => \E i \in 1..Len(activity) :
                activity[i].origin = w[1] /\ activity[i].requestId = w[2]

\* C9 witness: the writes of both sessions were in the host's pipe together
\* and both have been applied.
C9_Witness ==
    /\ \A t \in Tabs : \E i \in 1..Len(activity) : activity[i].origin = t
    /\ \A t \in Tabs : <<t, 1>> \in AnsweredByHost

\* C10: once an activity record has a canonical id, no step of push, retry,
\* reconcile or pull changes it or clears it.
C10_CanonicalWriteOnce ==
    [][\A i \in 1..Len(activity) :
          activity[i].canonicalId # 0
          => /\ i <= Len(activity')
             /\ activity'[i].canonicalId = activity[i].canonicalId]_vars

\* C10 witness: one record has been reconciled, and the response for another
\* row the central store inserted was lost, so that row waits for the retry.
C10_Witness ==
    /\ \E i \in 1..Len(activity) : activity[i].canonicalId # 0
    /\ ~pushResp.pending
    /\ \E j \in 1..Len(activity) :
          activity[j].canonicalId = 0 /\ CanonicalOf(central, j) # 0

\* The canonical rows the central store holds for local record c.
RowsFor(c) == {k \in 1..Len(central) : central[k].corr = c}

Accepted(resp) == {pr[1] : pr \in resp.map}

\* The step in which the response of a batch insert is reconciled.
ReconcileStep == pushResp.pending /\ ~pushResp'.pending /\ faults' = faults

\* C12: when the response of a Push is reconciled, exactly the rows it
\* reports as inserted get a canonical id and synced = true; the rejected
\* rows of the batch stay without canonical id and unsynced and are
\* returned by the next list_unsynced; no other record changes.
C12_PartialPush ==
    [][ReconcileStep =>
         /\ Len(activity') = Len(activity)
         /\ \A i \in 1..Len(activity) :
               IF i \in Accepted(pushResp)
               THEN activity'[i].canonicalId # 0 /\ activity'[i].synced
               ELSE activity'[i] = activity[i]
         /\ \A i \in pushResp.batch \ Accepted(pushResp) :
               /\ activity'[i].canonicalId = 0
               /\ ~activity'[i].synced
               /\ i \in list_unsynced(activity', BatchLimit)]_vars

\* C12 witness: a Push was reconciled that inserted a later row of its
\* batch and rejected an earlier one, which the next list_unsynced returns.
C12_Witness ==
    /\ ~pushResp.pending
    /\ \E i, j \in 1..Len(activity) :
          /\ i < j
          /\ activity[j].synced /\ activity[j].canonicalId # 0
          /\ ~activity[i].synced /\ activity[i].canonicalId = 0
          /\ i \in list_unsynced(activity, BatchLimit)

\* C13, safety: a record without canonical id is never deleted, and it gets
\* a canonical id (and the synced flag) only in a step that reconciles a
\* batch insert which put its row into the central store.
C13_UnsyncedKept ==
    [][\A i \in 1..Len(activity) :
          (activity[i].canonicalId = 0)
          => /\ i <= Len(activity')
             /\ activity'[i].localId = i
             /\ (activity'[i].canonicalId # 0 \/ activity'[i].synced)
                => /\ ReconcileStep
                   /\ activity'[i].canonicalId = CanonicalOf(central, i)
                   /\ CanonicalOf(central, i) # 0
             /\ (activity'[i].canonicalId = 0)
                => \E n \in 1..MaxRecords : i \in list_unsynced(activity', n)]_vars

\* Every record of the local store is synced.
AllSynced == \A i \in 1..Len(activity) : activity[i].synced

\* C13, liveness: whenever a record is unsynced, the loop reaches a state
\* in which every record is synced (the failures of a run are finite).
C13_EventuallySynced ==
    (\E i \in 1..Len(activity) : ~activity[i].synced) ~> AllSynced

\* C13: across failed Pull/Push cycles no unsynced record is dropped or
\* marked synced before a Push inserted it, and every record is synced in
\* the end.
C13_NeverDropsUnsynced == C13_UnsyncedKept /\ C13_EventuallySynced

\* C13 witness: after two failures a record that went through a failed
\* cycle is synced, and a later record is still waiting.
C13_Witness ==
    /\ faults = MaxFaults
    /\ \E i, j \in 1..Len(activity) :
          /\ pushed[i] = 2 /\ activity[i].synced
          /\ ~activity[j].synced /\ j \in list_unsynced(activity, BatchLimit)

\* The step in which a Pull commits its batch.
CommitStep == txn.open /\ ~txn'.open /\ faults' = faults

\* C14: after a Pull cycle the watermark is the largest last-modified value
\* among the rows the query returned, and it is unchanged when the query
\* returned no row; it is never a reading of the local clock.
C14_WatermarkFromServer ==
    [][CommitStep =>
         watermark' = IF txn.rows = {} THEN watermark
                      ELSE MaxModified(txn.rows)]_vars

Applied(cache, rows) ==
    [x \in Targets |->
        IF \E pr \in rows : pr[1] = x THEN (CHOOSE pr \in rows : pr[1] = x)[2]
        ELSE cache[x]]

C17_ReconcileIdempotent ==
    \A map \in Mappings :
        LET once == reconcile_ids(activity, map) IN
        /\ reconcile_ids(once, map) = once
        /\ IdentityConflicts(once, map) \subseteq IdentityConflicts(activity, map)

\* C17 witness: the store holds a reconciled and an unreconciled record, and
\* a mapping that names both changes the store when first applied.
C17_Witness ==
    /\ \E i, j \in 1..Len(activity) :
          activity[i].canonicalId # 0 /\ activity[j].canonicalId = 0
    /\ \E map \in Mappings :
          /\ Cardinality(map) >= 2
          /\ reconcile_ids(activity, map) # activity

\* A step in which a Pull or Push attempt fails on the network.
NetworkFailureStep ==
    faults' = faults + 1 /\ syncStatus' = "error" /\ phase' = "pull"

\* A step that ends a cycle in which Pull was committed and Push left no row
\* of its batch behind.
SuccessfulCycleStep ==
    /\ phase = "push" /\ phase' = "pull"
    /\ faults' = faults
    /\ pushResp.pending => Accepted(pushResp) = pushResp.batch

\* C18: the delay is always between the base interval and the maximum; a
\* network failure doubles it, up to the maximum; a fully successful cycle
\* puts it back to the base interval.
C18_Backoff ==
    /\ [](delay >= BaseDelay /\ delay <= MaxDelay)
    /\ [][NetworkFailureStep
            => delay' = IF 2 * delay <= MaxDelay THEN 2 * delay ELSE MaxDelay]_vars
    /\ [][SuccessfulCycleStep => delay' = BaseDelay]_vars

\* C18 witness: after repeated network failures the delay has grown to the
\* maximum.
C18_Witness ==
    /\ syncStatus = "error"
    /\ delay = MaxDelay
    /\ faults = MaxFaults

\* A step in which evaluate returns a verdict.
AttemptStep == Len(verdicts') = Len(verdicts) + 1

\* C19: the verdict of evaluate is BLOCK when some applicable active rule
\* gives BLOCK, otherwise WARN when some applicable active rule gives WARN,
\* and PASS otherwise, in particular when no active rule applies.
C19_MostSevere ==
    [][AttemptStep =>
         LET e == verdicts'[Len(verdicts')]
             app == Applicable(rules, e.account, OperatorOf(e.account))
             Gives(s) == \E r \in app :
                            RuleVerdict(r, eventLog, e.account, evalNow) = s
         IN e.verdict = IF Gives("BLOCK") THEN "BLOCK"
                        ELSE IF Gives("WARN") THEN "WARN"
                        ELSE "PASS"]_vars

\* C19 witness: with one rule of severity WARN and one of severity BLOCK on
\* the same account, the attempts got PASS, then WARN, then BLOCK.
C19_Witness ==
    /\ Cardinality({r.severity : r \in Applicable(rules, 1, OperatorOf(1))}) = 2
    /\ Len(verdicts) = 3
    /\ \A k \in 1..3 : verdicts[k].account = 1
    /\ verdicts[1].verdict = "PASS"
    /\ verdicts[2].verdict = "WARN"
    /\ verdicts[3].verdict = "BLOCK"

\* The Outreach records of account a created within the last w before now.
OutreachWithin(log, a, now, w) ==
    Cardinality({i \in 1..Len(log) :
                    /\ log[i].account = a
                    /\ log[i].kind = "Outreach"
                    /\ log[i].createdAt >= now - w})

\* C20, the rule: an attempt is flagged when an applicable active
\* FrequencyCap rule finds at least `threshold` Outreach records of the
\* account within its window, and when that rule is the only applicable
\* one the attempt is flagged only then.
C20_FlaggedAtLimit ==
    [][AttemptStep =>
         LET e == verdicts'[Len(verdicts')]
             app == Applicable(rules, e.account, OperatorOf(e.account))
         IN \A r \in app :
               (r.kind = "FrequencyCap")
               => LET n == OutreachWithin(eventLog, e.account, evalNow, r.window) IN
                  /\ (n >= r.threshold) => e.verdict # "PASS"
                  /\ (app = {r} /\ e.verdict # "PASS") => n >= r.threshold]_vars

\* The verdicts account a has got so far, in order.
VerdictsOf(a) ==
    LET Mine(e) == e.account = a IN SelectSeq(verdicts, Mine)

\* C20, the scenario: with one active FrequencyCap rule of limit 2 on the
\* account and a window that covers all attempts, the first two attempts get
\* PASS and every later one a verdict other than PASS.
C20_ThirdAttemptFlagged ==
    \A a \in Accounts : \A r \in rules :
        (/\ Applicable(rules, a, OperatorOf(a)) = {r}
         /\ r.kind = "FrequencyCap" /\ r.threshold = 2 /\ r.window >= MaxNow)
        => \A k \in 1..Len(VerdictsOf(a)) :
              (VerdictsOf(a)[k].verdict = "PASS") <=> (k <= 2)

\* C20: a FrequencyCap rule of limit N and window W flags an Outreach
\* attempt exactly when N Outreach records of the account lie within W.
C20_FrequencyCap == C20_FlaggedAtLimit /\ []C20_ThirdAttemptFlagged

\* C20 witness: account 1 has one active FrequencyCap rule of limit 2 whose
\* window covers all three attempts, made at different times, and they got
\* PASS, PASS and BLOCK.
C20_Witness ==
    /\ \E r \in rules :
          /\ Applicable(rules, 1, OperatorOf(1)) = {r}
          /\ r.kind = "FrequencyCap" /\ r.threshold = 2 /\ r.window >= MaxNow
    /\ Len(verdicts) = 3
    /\ \A k \in 1..3 : verdicts[k].account = 1
    /\ verdicts[1].verdict = "PASS"
    /\ verdicts[2].verdict = "PASS"
    /\ verdicts[3].verdict = "BLOCK"
    /\ Len(eventLog) >= 2
    /\ eventLog[2].createdAt > eventLog[1].createdAt

\* The parent activity record of detail row d.
ParentOf(d) == activity[d.activityId]

\* C21 (stored part): the detail row of an outreach whose target was flagged
\* Excluded at capture time holds an empty message, and its parent activity
\* record is in the store.
C21_ExcludedStored ==
    \A d \in outreachDetail :
        d.atCapture => /\ d.message = 0
                       /\ d.activityId \in 1..Len(activity)
                       /\ ParentOf(d).localId = d.activityId

\* C21 (synced part): the activity records of outreaches to excluded
\* targets are eventually synced.
C21_ExcludedSynced ==
    (\E d \in outreachDetail : d.atCapture /\ ~ParentOf(d).synced)
       ~> (\A d \in outreachDetail : d.atCapture => ParentOf(d).synced)

C22_SwitchPayload ==
    [][\A t \in tasks :
          (t.kind = "actorSwitch" /\ t \notin tasks')
          => LET m == sent'[Len(sent) + 1] IN
             /\ m.type = "ACTOR_SWITCH"
             /\ m.old_actor = t.n
             /\ m.new_actor = t.user
             /\ m.old_actor # m.new_actor]_vars

\* The LOG_OUTREACH messages the session has posted.
Logged == {sent[i] : i \in {j \in 1..Len(sent) : sent[j].type = "LOG_OUTREACH"}}

\* C23: a LOG_OUTREACH request is posted only with a non-empty message of at
\* most 200 characters, an actor that is not 'unknown_actor' and a known
\* target, and carries actor and target in its payload; a capture that lacks
\* one of them is dropped before it is posted.
C23_OnlyWellFormedLogged ==
    \A m \in Logged :
        /\ m.message \in 1..SnippetLimit
        /\ m.actor \in Accounts
        /\ m.target \in Targets
        /\ m.requestId # 0

\* C23 witness: a text longer than 200 characters was logged, cut to 200,
\* with the stored actor and the target of the thread.
C23_Witness ==
    \E m \in Logged : m.message = SnippetLimit /\ m.actor = storedActor /\ m.target = m.page.user

\* The status checks of the session that are posted and not yet answered.
OutstandingChecks == {r \in uiCallbacks : r.type = "CHECK_PROSPECT_STATUS"}

\* C24: within one content-script session at most one CHECK_PROSPECT_STATUS
\* request is outstanding at any time.
C24_OneCheckOutstanding == Cardinality(OutstandingChecks) <= 1

\* C25: every status check that sets the in-progress flag eventually clears
\* it, so later refreshes are not suppressed forever.
C25_FlagEventuallyCleared == isCheckInProgress ~> ~isCheckInProgress

\* The user whose profile or thread the page on display belongs to; 0 on a
\* page without target.
TargetOnDisplay == location.user

\* A step puts a contacted or not-contacted banner into the page.
BannerShown ==
    /\ banner' # banner
    /\ banner'.state \in {"contacted", "not_contacted"}

\* C26: once the router has handled the URL of the page on display, no
\* contacted or not-contacted banner is put up for another user than the
\* target of that page; on a page without target none is put up at all.
C26_NoBannerOfPreviousTarget ==
    [][(BannerShown /\ lastCheckedUrl = location /\ location' = location)
         => banner'.about = TargetOnDisplay]_vars


\* C27: every LOG_OUTREACH request sent from a thread names as target the
\* user whose thread is on display when the request is posted.
C27_TargetIsThreadOnDisplay ==
    \A m \in Logged : m.page.kind = "thread" => m.target = m.page.user


\* A response to request r of tab t, the host's or the gate's own, has been
\* handed towards a content script.
ResponseProduced(t, r) ==
    \E u \in Tabs :
        \E m \in InFlightTo(u) \cup cbGot[u] :
            m.type = "response" /\ m.requestId = r /\ m.origin = t

\* The request the entry of r was stored for is answered, and the entry is
\* still in the table.
EntryOfAnswered(r) == pendingRequests[r] # 0 /\ ResponseProduced(pendingRequests[r], r)

\* A step replaces the entry of r, stored for one tab, by one of another tab.
Overwritten(r) ==
    /\ pendingRequests[r] # 0
    /\ pendingRequests'[r] # 0
    /\ pendingRequests'[r] # pendingRequests[r]

\* No entry of the table belongs to a request that has been answered.
NoEntryOfAnswered == \A r \in ReqIds : ~EntryOfAnswered(r)

\* No step overwrites an entry of the table.
NeverOverwritten == [][\A r \in ReqIds : ~Overwritten(r)]_vars

\* C28: an entry of the pending-request table is never overwritten by
\* another outstanding request, and no entry remains once its request has
\* been answered, the APPLICATION_OFFLINE answer included.
C28_PendingTableExact == []NoEntryOfAnswered /\ NeverOverwritten


\* The invocations of the callback that tab t registered for request r.
Invocations(t, r) == {m \in cbGot[t] : m.requestId = r}

\* The callback of a request is invoked at most once.
InvokedOnce == \A t \in Tabs : \A r \in ReqIds : Cardinality(Invocations(t, r)) <= 1

\* The callback of a request is invoked only with the response to that
\* request or with its send error.
InvokedWithOwn == \A t \in Tabs : \A r \in ReqIds : \A m \in Invocations(t, r) : m.origin = t

\* C29: the callback passed with a request is invoked at most once, and only
\* with the response to that request or with its send error.
C29_CallbackOnceWithOwnResponse == InvokedOnce /\ InvokedWithOwn


\* The status checks, other than silent refreshes, that the session has
\* posted for user u.
ChecksPosted(u) ==
    {i \in 1..Len(sent) : /\ sent[i].type = "CHECK_PROSPECT_STATUS"
                          /\ ~sent[i].silent
                          /\ sent[i].target = u}

\* The session is on the page it was loaded on and the user has not
\* navigated: a round trip takes two navigations.
StillOnLanding ==
    /\ location = landing
    /\ acts <= 1
    /\ \A i \in 1..Len(sent) : sent[i].page = landing

\* C30: after the load of a profile or thread page, and as long as the user
\* does not navigate, one status check at most is posted for the target of
\* the page, whichever of the observer's URL handler and the 300 ms initial
\* check runs first.
C30_OneCheckOnPageLoad ==
    (StillOnLanding /\ landing.user # 0) => Cardinality(ChecksPosted(landing.user)) <= 1

\* The ports of the content script of tab t that are open.
OpenPorts(t) == {p \in Ports : portTab[p] = t /\ portOpen[p]}

\* C31: a content script holds at most one open port to the background
\* script at any time.
C31_OneOpenPort == \A t \in Tabs : Cardinality(OpenPorts(t)) <= 1

\* A run of checkForActorSwitch leaves the account the page exposes in the
\* store.
CheckStoresViewer == checkForActorSwitch => storedActor' = viewer

\* A logOutreach that starts while the store holds the account on display
\* reads that account.
StartedLogReadsViewer ==
    \A t \in tasks' \ tasks :
        (t.kind = "logSend" /\ storedActor = viewer) => t.user = viewer

\* A logOutreach that posts its request names the account it has read.
PostedLogNamesRead ==
    \A t \in tasks \ tasks' :
        (t.kind = "logSend" /\ Len(sent') > Len(sent))
        => /\ sent'[Len(sent')].type = "LOG_OUTREACH"
           /\ sent'[Len(sent')].actor = t.user

ReconnectsOnRequest ==
    \A t \in Tabs :
        (BgTakes(t, "message") /\ ~nativePort /\ hostUp)
        => /\ nativePort' /\ nativeLive'
           /\ hostInbox' = Append(hostInbox, Head(toBg[t]).msg)

\* A keep-alive tick without a native port connects.
ReconnectsOnTick ==
    (ticks' = ticks + 1 /\ ~nativePort /\ hostUp) => (nativePort' /\ nativeLive')

\* A connection is opened only while the gate holds no native port, and the
\* connection is the port it holds.
OneNativeConnection ==
    /\ (nativeLive' /\ ~nativeLive) => ~nativePort
    /\ nativeLive' => nativePort'

\* With a connection to the host, a request is forwarded to it.
ForwardsWhenConnected ==
    \A t \in Tabs :
        (BgTakes(t, "message") /\ nativeLive)
        => hostInbox' = Append(hostInbox, Head(toBg[t]).msg)

PeriodicRefreshPosted ==
    /\ Len(sent') = Len(sent) + 1
    /\ sent'[Len(sent')].type = "CHECK_PROSPECT_STATUS"
    /\ sent'[Len(sent')].silent
    /\ acts' = acts
    /\ tasks' = tasks

\* C34: while the tab is hidden no periodic status-refresh check is sent,
\* and at most one refresh timer exists in a session at any time.
C34_RefreshOnlyVisibleOneTimer ==
    /\ [](refreshTimers <= 1)
    /\ [][PeriodicRefreshPosted => visible]_vars

\* C34 witness: a check has completed and started the refresh timer, the
\* timer has posted a periodic refresh, and the tab has been hidden since:
\* no timer is left.
C34_Witness ==
    /\ ~visible
    /\ refreshTimers = 0
    /\ lastCheckedUsername # 0
    /\ \E i \in 1..Len(sent) : sent[i].type = "CHECK_PROSPECT_STATUS" /\ sent[i].silent

\* A step opens a discovery tab.
DiscoveryTabOpened == discoveryTabs' \ discoveryTabs # {}

\* At most one discovery tab is open.
OneDiscoveryTabOpen == Cardinality(discoveryTabs) <= 1

\* No discovery tab is opened while a username is in the store.
NoneOpenedWhileStored == [][DiscoveryTabOpened => storedActor = 0]_vars

\* C35: at most one actor-discovery tab is open at any time, and none is
\* opened while an actor username is stored.
C35_OneDiscoveryTab == []OneDiscoveryTabOpen /\ NoneOpenedWhileStored

\* A tick of the username poll ends the poll.
PollStops ==
    /\ dmDiscoveryInterval # NoPoll
    /\ dmDiscoveryInterval' = NoPoll
    /\ lastCheckedUrl' = lastCheckedUrl

\* A handler is suspended in the storage read of showStatusBanner, which
\* takes a fraction of the 500 ms between two ticks of the poll.
SuspendedInBanner ==
    \E t \in tasks : t.kind \in {"showSearching", "checkSend", "checkDone", "statusShow"}

\* A status check for user u is under way: suspended before its request, or
\* waiting for the response.
CheckUnderWay(T, C, u) ==
    \/ Task("checkSend", u, "searching", 0) \in T
    \/ \E r \in C : r.type = "CHECK_PROSPECT_STATUS" /\ r.user = u

\* The poll ends because the page on display is no longer its thread.
StoppedByUrl == location # dmDiscoveryInterval.url

\* The poll ends with a status check for the user of the thread, started by
\* the poll or under way already.
StoppedByCheck ==
    /\ location = dmDiscoveryInterval.url
    /\ isCheckInProgress'
    /\ lastCheckedUsername' = location.user
    /\ CheckUnderWay(tasks', uiCallbacks', location.user)

\* The poll ends after its last attempt with the banner on detection-failed.
StoppedByFailure ==
    /\ location = dmDiscoveryInterval.url
    /\ dmDiscoveryInterval.attempts + 1 >= MaxPolls
    /\ banner'.stage = "detection-failed"

\* C36: the username poll of a DM thread ends within its maximum of
\* attempts, in one of three outcomes: a status check is under way for the
\* detected user, the banner is set to detection-failed, or the URL has
\* changed.
C36_PollEndsInOneOutcome ==
    /\ [](dmDiscoveryInterval.attempts < MaxPolls)
    /\ [][(PollStops /\ ~SuspendedInBanner)
            => (StoppedByUrl \/ StoppedByCheck \/ StoppedByFailure)]_vars

\* The scroller is off: button and panel are not on display, the flag is
\* down and no timeout of performScrollStep is pending.
ScrollerOff ==
    /\ toggleBtn # "flex"
    /\ panel # "block"
    /\ ~isScrolling
    /\ scrollInterval = 0
    /\ scrollTimers = 0

\* A URL check on a page outside /direct/ turns the scroller off.
CheckTurnsOff == (checkUrl /\ ~IsDirect(location)) => ScrollerOff'

\* Outside /direct/ a scroller that is off stays off and the list stays
\* where it is.
OffStaysOff ==
    (ScrollerOff /\ ~IsDirect(location) /\ ~IsDirect(location'))
        => (ScrollerOff' /\ scrollTop' = scrollTop)

\* C37: once the URL no longer contains '/direct/', the next URL check hides
\* the toggle button and the panel and stops the scrolling, and from then on
\* no scroll step changes the position of the list.
C37_ScrollingOnlyOnDirect == [][CheckTurnsOff /\ OffStaysOff]_vars

\* The list has been scrolled, the panel exists, and the scroller has been
\* turned off on a page outside /direct/.
C37_Witness ==
    /\ ~IsDirect(location)
    /\ ScrollerOff
    /\ toggleBtn = "none"
    /\ panel = "none"
    /\ scrollTop > 0

====
